---- MODULE Spec2Model ----
(***************************************************************************)
(* Deployment lifecycle orchestrator of ploys/deployments.                 *)
(*                                                                         *)
(* The hosting platform (check suites, check runs, deployments, git refs,  *)
(* workflow runs) is the state.  Every webhook handler of Repository is a  *)
(* sequence of platform calls; a handler runs to its end in one action     *)
(* when deliveries are processed one after the other (Spec), and one       *)
(* platform call at a time when two workers handle deliveries at the same  *)
(* time (SpecDeployRace, SpecLockRace, SpecStartRace, SpecRequestRace).    *)
(* The config package (the schema's rules of needs and runs,               *)
(* Config.matches, Config.list) is pure: SpecConfig draws a config value   *)
(* and applies one of them to it.  SpecFair is the two workers of          *)
(* SpecLockRace under fair delivery; SpecStages follows the stages of the  *)
(* units of one deployment; SpecCycles runs util.cycles call by call.      *)
(***************************************************************************)
EXTENDS Integers, Sequences, FiniteSets, TLC

(***************************************************************************)
(* Bounds of the model.                                                    *)
(***************************************************************************)
\* The number of check runs the platform holds: a delivery that would create
\* more is not made.
MaxChecks == 2
\* Check runs when two manual requests are in flight at the same time.
MaxRaceChecks == 3
\* The longest needs or runs list of a stage under validation.
MaxRefs == 2
\* The number of files of a listed directory.
MaxFiles == 2

Shas == {"a", "b"}
Envs == {"staging", "production"}
Branches == {"master", "develop"}
CommitTriggers == {"push", "pull_request"}
\* Conclusions a finished workflow run reports to the handlers.
RunConclusions == {"success", "failure", "cancelled"}
\* States an external status report carries.
StatusStates == {"success", "failure", "pending"}
\* Check suite identifiers the platform hands to workflow runs, in the order
\* it allocates them.
SuiteIds == {1, 2, 12}
\* Artifact names a workflow run may upload.
ArtifactNames == {"bin"}
NoSha == "-"

(***************************************************************************)
(* Configuration: stages, actions and triggers as the config package       *)
(* holds them once decoded.                                                *)
(***************************************************************************)
NoNeeds == [def |-> FALSE, list |-> <<>>]

Needs(list) == [def |-> TRUE, list |-> list]

Action(id, runs) == [id |-> id, runs |-> runs]

Stage(key, needs, actions) == [key |-> key, needs |-> needs, actions |-> actions]

NoBranches == [def |-> FALSE, list |-> {}]

\* on: <name>
OnString(name) == [form |-> "string", str |-> name, arr |-> {}, map |-> <<>>]

\* on: [<name>, ...]
OnArray(names) == [form |-> "array", str |-> "", arr |-> names, map |-> <<>>]

\* on: {<name>: null | {branches: [...]}}
OnMap(map) == [form |-> "map", str |-> "", arr |-> {}, map |-> map]

TriggerNull == [null |-> TRUE, branches |-> NoBranches]

TriggerBranches(list) == [null |-> FALSE, branches |-> [def |-> TRUE, list |-> list]]

\* Config.matches
\* A match that does not look at the branches of a trigger.
matches_anyBranch(triggers, trigger, branch) ==
  IF triggers.form = "array" THEN trigger \in triggers.arr
  ELSE IF triggers.form = "string" THEN triggers.str = trigger
  ELSE trigger \in DOMAIN triggers.map

\* A match that takes a trigger of the map form only when it is null.
matches_nullOnly(triggers, trigger, branch) ==
  IF triggers.form = "array" THEN trigger \in triggers.arr
  ELSE IF triggers.form = "string" THEN triggers.str = trigger
  ELSE IF trigger \notin DOMAIN triggers.map THEN FALSE
  ELSE triggers.map[trigger].null \/ branch \in triggers.map[trigger].branches.list

matches(triggers, trigger, branch) ==
  IF triggers.form = "array" THEN trigger \in triggers.arr
  ELSE IF triggers.form = "string" THEN triggers.str = trigger
  ELSE IF trigger \notin DOMAIN triggers.map THEN FALSE
  ELSE LET tr == triggers.map[trigger]
       IN  ~(~tr.null /\ tr.branches.def /\ branch \notin tr.branches.list)

\* Config.defaults: one implicit deploy stage.
DefaultStages == <<Stage("deploy", NoNeeds, <<>>)>>

\* {on: push}
CfgPush == [on |-> OnString("push"), stages |-> DefaultStages]

\* {on: manual}
CfgManual == [on |-> OnString("manual"), stages |-> DefaultStages]

\* {on: {pull_request: {branches: [master]}}}
CfgPull ==
  [on |-> OnMap("pull_request" :> TriggerBranches({"master"})), stages |-> DefaultStages]

\* Two stages: deploy offers approve, approve needs deploy.
CfgStaged ==
  [on |-> OnMap("push" :> TriggerNull @@ "pull_request" :> TriggerBranches({"master"})),
   stages |-> <<Stage("deploy", NoNeeds, <<Action("approve", <<"approve">>)>>),
                Stage("approve", Needs(<<"deploy">>), <<>>)>>]

\* Two parallel entry stages that share an action, and a stage that repeats.
CfgParallel ==
  [on |-> OnArray({"push", "manual"}),
   stages |-> <<Stage("build", NoNeeds, <<Action("release", <<"release", "test">>)>>),
                Stage("test", Needs(<<>>), <<>>),
                Stage("check", NoNeeds, <<Action("release", <<"release", "check">>)>>),
                Stage("release", Needs(<<"build", "check">>),
                      <<Action("again", <<"release">>)>>)>>]

Entry(key, err, cfg) == [key |-> key, err |-> err, cfg |-> cfg]

\* The listings of .github/deployments a commit may carry.
Listings ==
  { <<Entry("staging", FALSE, CfgPush)>>,
    <<Entry("staging", FALSE, CfgStaged)>>,
    <<Entry("staging", FALSE, CfgParallel)>>,
    <<Entry("staging", FALSE, CfgManual)>>,
    <<Entry("staging", FALSE, CfgPull)>>,
    <<Entry("staging", TRUE, CfgPush)>>,
    <<Entry("staging", FALSE, CfgPush), Entry("production", FALSE, CfgStaged)>> }

\* util.unique: first occurrences, in order.
RECURSIVE unique(_)
unique(input) ==
  IF input = <<>> THEN <<>>
  ELSE LET init == unique(SubSeq(input, 1, Len(input) - 1))
           last == input[Len(input)]
       IN  IF \E k \in 1..Len(init) : init[k] = last THEN init ELSE Append(init, last)

Includes(seq, x) == \E k \in 1..Len(seq) : seq[k] = x

RECURSIVE Concat(_)
Concat(seqs) == IF seqs = <<>> THEN <<>> ELSE Head(seqs) \o Concat(Tail(seqs))

\* Every stage, whether it has dependencies or not.
EntryStages_all(stages) == [k \in 1..Len(stages) |-> stages[k].key]

\* Stages without dependencies: the loop `if (!stage.needs) include.push(key)`.
EntryStages(stages) ==
  Concat([k \in 1..Len(stages) |->
            IF ~stages[k].needs.def THEN <<stages[k].key>> ELSE <<>>])

HasAction(stage, action) == \E k \in 1..Len(stage.actions) : stage.actions[k].id = action

RunsOf(stage, action) ==
  Concat([k \in 1..Len(stage.actions) |->
            IF stage.actions[k].id = action THEN stage.actions[k].runs ELSE <<>>])

\* The targets of every stage that declares the action, current or not.
ActionStages_any(stages, current, action) ==
  Concat([k \in 1..Len(stages) |->
            IF HasAction(stages[k], action) THEN RunsOf(stages[k], action) ELSE <<>>])

\* The stages a requested action runs next, before deduplication.
ActionStages(stages, current, action) ==
  Concat([k \in 1..Len(stages) |->
            IF Includes(current, stages[k].key) /\ HasAction(stages[k], action)
            THEN RunsOf(stages[k], action) ELSE <<>>])

StageByKey(stages, key) ==
  Concat([k \in 1..Len(stages) |-> IF stages[k].key = key THEN <<stages[k]>> ELSE <<>>])

\* The further actions of the current stages, first declaration of an id wins.
FurtherActions(stages, current) ==
  unique(Concat([k \in 1..Len(current) |->
     LET found == StageByKey(stages, current[k])
     IN  IF found = <<>> THEN <<>>
         ELSE [j \in 1..Len(found[1].actions) |-> found[1].actions[j].id]]))


(***************************************************************************)
(* The schema of a config: the custom rules of needs and runs.             *)
(***************************************************************************)
\* Properties that every object inherits: `value in object` is true of them.
ObjectPrototype == {"constructor", "toString", "valueOf"}

\* value in helpers.state.ancestors[index]
In(value, stages) ==
  value \in {stages[k].key : k \in 1..Len(stages)} \cup ObjectPrototype

\* edges[key] = util.array(item.needs), for each declared stage.
Edges(stages) ==
  [key \in {stages[k].key : k \in 1..Len(stages)} |->
     StageByKey(stages, key)[1].needs.list]

\* [root, ...visited].join(' -> ')
Join(path) ==
  [k \in 1..(2 * Len(path) - 1) |-> IF k % 2 = 1 THEN path[(k + 1) \div 2] ELSE " -> "]

RECURSIVE DetectLoop_any(_, _, _, _, _, _), DetectLoop(_, _, _, _, _, _), Detect(_, _, _, _, _)
\* A loop that records the path whenever it meets a visited stage.
DetectLoop_any(graph, root, edges, i, visited, acc) ==
  IF acc.thrown \/ i > Len(edges) THEN acc
  ELSE IF Includes(visited, edges[i])
       THEN [acc EXCEPT !.out = Append(@, Join(<<root>> \o visited))]
       ELSE DetectLoop(graph, root, edges, i + 1, visited,
                       Detect(graph, root, edges[i], Append(visited, edges[i]), acc))

\* util.cycles, the loop of detect over the edges from index i on: a visited
\* edge ends the loop, and is recorded when the path has come back to root.
DetectLoop(graph, root, edges, i, visited, acc) ==
  IF acc.thrown \/ i > Len(edges) THEN acc
  ELSE IF Includes(visited, edges[i])
       THEN IF visited[Len(visited)] = root
            THEN [acc EXCEPT !.out = Append(@, Join(<<root>> \o visited))]
            ELSE acc
       ELSE DetectLoop(graph, root, edges, i + 1, visited,
                       Detect(graph, root, edges[i], Append(visited, edges[i]), acc))

\* detect(root, graph[node], visited): graph[node] of a stage that is not
\* declared is no array, and the loop over it throws.
Detect(graph, root, node, visited, acc) ==
  IF node \notin DOMAIN graph THEN [acc EXCEPT !.thrown = TRUE]
  ELSE DetectLoop(graph, root, graph[node], 1, visited, acc)

\* util.cycles(graph, start)
cycles(graph, start) == Detect(graph, start, start, <<>>, [out |-> <<>>, thrown |-> FALSE])

Passed == [error |-> "", cycles |-> <<>>]

\* A needs value that is any string.
need_plain(stages, key, value) == Passed

\* A rule that lets a stage need only stages declared before it.
need_earlier(stages, key, value) ==
  LET at(name) == CHOOSE k \in 1..Len(stages) : stages[k].key = name
  IN  IF value = key THEN [Passed EXCEPT !.error = "it cannot reference own stage"]
      ELSE IF ~In(value, stages) \/ value \in ObjectPrototype \/ at(value) > at(key)
           THEN [Passed EXCEPT !.error = "it must reference another stage"]
      ELSE LET found == cycles(Edges(stages), value)
           IN  IF Len(found.out) > 0
               THEN [error |-> "detected cycles", cycles |-> found.out]
               ELSE Passed

\* need: the custom rule of one needs value of stage key.
need(stages, key, value) ==
  IF value = key THEN [Passed EXCEPT !.error = "it cannot reference own stage"]
  ELSE IF ~In(value, stages) THEN [Passed EXCEPT !.error = "it must reference another stage"]
  ELSE LET found == cycles(Edges(stages), value)
       IN  IF found.thrown THEN [Passed EXCEPT !.error = "TypeError"]
           ELSE IF Len(found.out) > 0
                THEN [error |-> "detected cycles", cycles |-> found.out]
                ELSE Passed

\* run: the custom rule of one runs value.
RunRule(stages, value) ==
  IF ~In(value, stages) THEN [Passed EXCEPT !.error = "it must reference a valid stage"]
  ELSE Passed

\* The errors of the custom rules over the stages of a config; the config is
\* valid when there is none.
Reports(stages) ==
  LET ofNeeds == UNION {{[stage |-> stages[k].key, field |-> "needs",
                        value |-> stages[k].needs.list[j],
                        found |-> need(stages, stages[k].key, stages[k].needs.list[j])] :
                         j \in 1..Len(stages[k].needs.list)} : k \in 1..Len(stages)}
      ofRuns == UNION {UNION {{[stage |-> stages[k].key, field |-> "runs",
                              value |-> stages[k].actions[a].runs[j],
                              found |-> RunRule(stages, stages[k].actions[a].runs[j])] :
                               j \in 1..Len(stages[k].actions[a].runs)} :
                            a \in 1..Len(stages[k].actions)} : k \in 1..Len(stages)}
  IN  {report \in ofNeeds \cup ofRuns : report.found.error # ""}

(***************************************************************************)
(* Config.list: the files of .github/deployments, keyed by id.             *)
(***************************************************************************)
Alphanumerics == {"a", "b"}

\* .replace(/[\W_-]+/g, '-'): every run of other characters becomes one dash.
RECURSIVE Sanitize(_)
Sanitize(chars) ==
  IF chars = <<>> THEN <<>>
  ELSE LET init == Sanitize(SubSeq(chars, 1, Len(chars) - 1))
           last == chars[Len(chars)]
           prev == chars[Len(chars) - 1]
       IN  IF last \in Alphanumerics THEN Append(init, last)
           ELSE IF Len(chars) > 1 /\ prev \notin Alphanumerics THEN init
           ELSE Append(init, "-")

\* Config.load of one file: the id of the file, or the one the file states.
LoadedId(file) == IF file.id = <<>> THEN Sanitize(file.base) ELSE file.id

\* The loop of Config.list from file i on: a later file with the key of an
\* earlier one replaces its entry.
RECURSIVE ListFrom(_, _, _)
ListFrom(files, i, items) ==
  IF i > Len(files) THEN items
  ELSE LET file == files[i]
           listed == file.type = "file" /\ file.ext \in {"yml", "yaml"}
           key == IF file.valid THEN LoadedId(file) ELSE Sanitize(file.base)
           item == key :> [err |-> ~file.valid, file |-> i]
       IN  ListFrom(files, i + 1, IF listed THEN item @@ items ELSE items)

ConfigList(files) == ListFrom(files, 1, <<>>)

(***************************************************************************)
(* State: the platform's records and the handlers in flight.               *)
(***************************************************************************)
VARIABLES
  list,    \* the config listing of .github/deployments, fixed per behaviour
  exists,  \* whether a deployment workflow file exists
  suites,  \* the commits that have a check suite of this application
  checks,  \* check runs, by identifier
  deps,    \* deployment resources, by identifier
  runs,    \* workflow runs on the deployments/<env> branches, oldest first
  refs,    \* the deployments/<env> branch of each environment (the lock)
  procs,   \* the handler each worker is executing, or the way its last one ended
  input,   \* the config value handed to the config package
  output   \* what the config package has returned for it

vars == <<list, exists, suites, checks, deps, runs, refs, procs, input, output>>

Procs == {"p1", "p2"}

\* A worker between deliveries.  The record a handler ends with tells how it
\* ended: `was` is the handler, `pc` whether it returned ("done") or threw
\* ("error"), `exit` the place it left.
Idle ==
  [kind |-> "idle", pc |-> "done", was |-> "", exit |-> "", sha |-> NoSha, env |-> "",
   branch |-> "", trigger |-> "", run |-> 0, action |-> "", suite |-> 0, state |-> "",
   i |-> 0, once |-> FALSE, cur |-> 0, chk |-> 0, flow |-> 0, arts |-> <<>>, dep |-> 0,
   ret |-> ""]

\* The platform as one worker sees it: the world a handler step transforms.
World(p) ==
  [suites |-> suites, checks |-> checks, deps |-> deps, runs |-> runs, refs |-> refs,
   proc |-> procs[p]]

At(w, pc) == [w EXCEPT !.proc.pc = pc]

Finish(w, outcome, exit) ==
  [w EXCEPT !.proc = [Idle EXCEPT !.pc = outcome, !.was = w.proc.kind, !.exit = exit]]

Max(S) == CHOOSE x \in S : \A y \in S : y <= x

Min(S) == CHOOSE x \in S : \A y \in S : x <= y

(***************************************************************************)
(* Platform calls.                                                         *)
(***************************************************************************)
\* check.create: a queued check run named after the environment.
NewCheck(sha, env) ==
  [sha |-> sha, env |-> env, status |-> "queued", conclusion |-> "none", actions |-> <<>>]

\* check.find: the latest check run of the environment at the commit, 0 if none.
CheckFind(w, sha, env) ==
  LET found == {c \in 1..Len(w.checks) : w.checks[c].sha = sha /\ w.checks[c].env = env}
  IN  IF found = {} THEN 0 ELSE Max(found)

\* deployment.list then deployment.get: the latest deployment, 0 if none.
DeploymentGet(w, sha, env, run) ==
  LET found == {d \in 1..Len(w.deps) :
                  /\ ~w.deps[d].deleted
                  /\ w.deps[d].sha = sha
                  /\ w.deps[d].env = env
                  /\ (run # 0 => w.deps[d].check_run_id = run)}
  IN  IF found = {} THEN 0 ELSE Max(found)

\* deployment.create: the platform resolves the deployments/<env> ref.
NewDeployment(w, env, run, task, stages, completed, artifacts) ==
  [env |-> env, sha |-> w.refs[env], check_run_id |-> run, task |-> task,
   stages |-> stages, completed_stages |-> completed, artifacts |-> artifacts,
   state |-> "none", deleted |-> FALSE]

\* workflow.list then workflow.get: the latest run of the branch at the commit.
WorkflowGet(w, sha, env) ==
  LET found == {r \in 1..Len(w.runs) : w.runs[r].env = env /\ w.runs[r].sha = sha}
  IN  IF found = {} THEN 0 ELSE Max(found)

\* config.get: the entry of the environment, as await-to-js returns it.
ConfigGet(env) ==
  LET found == {k \in 1..Len(list) : list[k].key = env}
  IN  IF found = {} THEN [err |-> TRUE, cfg |-> CfgPush]
      ELSE [err |-> list[Min(found)].err, cfg |-> list[Min(found)].cfg]

RECURSIVE Digits(_)
Digits(n) == IF n < 10 THEN <<n>> ELSE Append(Digits(n \div 10), n % 10)

\* run.check_suite_url.includes(suite.toString())
UrlIncludes(urlSuite, suite) ==
  LET url == Digits(urlSuite)
      sub == Digits(suite)
  IN  \E k \in 0..(Len(url) - Len(sub)) : SubSeq(url, k + 1, k + Len(sub)) = sub

\* status.missing, status.invalid, status.ready: an update of the check run.
SetCheck(w, chk, status, conclusion, actions) ==
  [w EXCEPT !.checks[chk].status = status,
            !.checks[chk].conclusion = conclusion,
            !.checks[chk].actions = actions]

\* status.queued ... status.incomplete: a deployment status, then the update
\* of the check run; the status of a deleted deployment cannot be created.
SetStatus(w, exit, dep, chk, state, status, conclusion, actions) ==
  IF w.deps[dep].deleted THEN Finish(w, "error", exit)
  ELSE [SetCheck(w, chk, status, conclusion, actions) EXCEPT !.deps[dep].state = state]

\* Artifacts of which the older one is kept under a name.
Overlay_keep(old, new) ==
  [n \in DOMAIN old \cup DOMAIN new |-> IF n \in DOMAIN old THEN old[n] ELSE new[n]]

\* Artifacts overwritten by name.
Overlay(old, new) ==
  [n \in DOMAIN old \cup DOMAIN new |-> IF n \in DOMAIN new THEN new[n] ELSE old[n]]

(***************************************************************************)
(* Repository.lock, Repository.unlock, Repository.ensure.                  *)
(***************************************************************************)
\* git.createRef succeeds exactly when the branch does not exist.
CanLock(w, env) == w.refs[env] = NoSha

lock(w, env, sha) == [w EXCEPT !.refs[env] = sha]

\* A release that deletes the deployments branch of every environment.
unlock_all(w, env) == [w EXCEPT !.refs = [e \in Envs |-> NoSha]]

unlock(w, env) == [w EXCEPT !.refs[env] = NoSha]

\* ensure, first half: the attempt to acquire the lock.
Ensure_lock(w) ==
  IF CanLock(w, w.proc.env)
  THEN At(lock(w, w.proc.env, w.proc.sha), w.proc.ret)
  ELSE At(w, "ensure_getRef")

\* A second half that is content with a branch that exists.
Ensure_getRef_any(w) ==
  IF w.refs[w.proc.env] # NoSha THEN At(w, w.proc.ret)
  ELSE IF w.proc.kind \in {"request", "rerequest"} THEN Finish(w, "done", "ensure")
  ELSE Finish(w, "error", "ensure")

\* ensure, second half: the branch must point at the commit.  request and
\* rerequest catch the error and return, started and completed let it out.
Ensure_getRef(w) ==
  IF w.refs[w.proc.env] = w.proc.sha THEN At(w, w.proc.ret)
  ELSE IF w.proc.kind \in {"request", "rerequest"} THEN Finish(w, "done", "ensure")
  ELSE Finish(w, "error", "ensure")

(***************************************************************************)
(* Repository.deploy(sha, branch, trigger).                                *)
(***************************************************************************)
\* A loop body that deploys a config on a push for its manual trigger too.
DeployCase_manual(e, trigger, branch) ==
  IF ~exists THEN "missing"
  ELSE IF e.err THEN "invalid"
  ELSE IF matches(e.cfg.on, trigger, branch) THEN "deploy"
  ELSE IF matches(e.cfg.on, "manual", branch) /\ trigger = "push" THEN "deploy"
  ELSE "skip"

\* The branch of the loop body an entry of the listing takes.
DeployCase(e, trigger, branch) ==
  IF ~exists THEN "missing"
  ELSE IF e.err THEN "invalid"
  ELSE IF matches(e.cfg.on, trigger, branch) THEN "deploy"
  ELSE IF matches(e.cfg.on, "manual", branch) /\ trigger = "push" THEN "ready"
  ELSE "skip"

\* Continue the loop at the first entry from `from` on that posts a check.
DeployLoop(w, from) ==
  LET todo == {j \in from..Len(list) :
                 DeployCase(list[j], w.proc.trigger, w.proc.branch) # "skip"}
  IN  IF todo = {} THEN Finish(w, "done", "end")
      ELSE [w EXCEPT !.proc.i = Min(todo), !.proc.env = list[Min(todo)].key,
                     !.proc.pc = IF w.proc.once THEN "deploy_check" ELSE "deploy_once"]

\* The loop without a look at the check suites of the commit.
Deploy_listSuites_blind(w) == DeployLoop(w, 1)

\* Skip the commit when it has a check suite already.
Deploy_listSuites(w) ==
  IF w.proc.sha \in w.suites THEN Finish(w, "done", "suite") ELSE DeployLoop(w, 1)

Deploy_once(w) ==
  [w EXCEPT !.suites = w.suites \cup {w.proc.sha}, !.proc.once = TRUE,
            !.proc.pc = "deploy_check"]

Deploy_check(w) ==
  LET case == DeployCase(list[w.proc.i], w.proc.trigger, w.proc.branch)
  IN  [w EXCEPT !.checks = Append(w.checks, NewCheck(w.proc.sha, w.proc.env)),
                !.proc.run = Len(w.checks) + 1,
                !.proc.pc = CASE case = "missing" -> "deploy_missing"
                              [] case = "invalid" -> "deploy_invalid"
                              [] case = "deploy" -> "deploy_lock"
                              [] OTHER -> "deploy_ready"]

Deploy_missing(w) ==
  DeployLoop(SetCheck(w, w.proc.run, "completed", "failure", <<>>), w.proc.i + 1)

\* An invalid config reported as ready to deploy.
Deploy_invalid_ready(w) ==
  DeployLoop(SetCheck(w, w.proc.run, "completed", "neutral", <<"deploy">>), w.proc.i + 1)

Deploy_invalid(w) ==
  DeployLoop(SetCheck(w, w.proc.run, "completed", "failure", <<>>), w.proc.i + 1)

\* The branch is moved to the commit whether it exists or not.
Deploy_lock_force(w) == At(lock(w, w.proc.env, w.proc.sha), "deploy_create")

\* A failed lock that is not caught ends the handler.
Deploy_lock_throw(w) ==
  IF CanLock(w, w.proc.env)
  THEN At(lock(w, w.proc.env, w.proc.sha), "deploy_create")
  ELSE Finish(w, "error", "lock")

Deploy_lock(w) ==
  IF CanLock(w, w.proc.env)
  THEN At(lock(w, w.proc.env, w.proc.sha), "deploy_create")
  ELSE At(w, "deploy_ready")

Deploy_ready(w) ==
  DeployLoop(SetCheck(w, w.proc.run, "completed", "neutral", <<"deploy">>), w.proc.i + 1)

Deploy_create(w) ==
  IF w.refs[w.proc.env] = NoSha THEN Finish(w, "error", "create")
  ELSE [w EXCEPT !.deps = Append(w.deps, NewDeployment(w, w.proc.env, w.proc.run,
                             <<"deploy">>, EntryStages(list[w.proc.i].cfg.stages),
                             <<>>, <<>>)),
                 !.proc.dep = Len(w.deps) + 1,
                 !.proc.pc = "deploy_queued"]

Deploy_queued(w) ==
  LET set == SetStatus(w, "queued", w.proc.dep, w.proc.run, "queued", "queued",
                       w.checks[w.proc.run].conclusion, w.checks[w.proc.run].actions)
  IN  IF set.proc.kind = "idle" THEN set ELSE DeployLoop(set, w.proc.i + 1)

(***************************************************************************)
(* Repository.request(sha, env, run, action).                              *)
(***************************************************************************)
Request_get(w) ==
  LET cur == DeploymentGet(w, w.proc.sha, w.proc.env, w.proc.run)
  IN  [w EXCEPT !.proc.cur = cur, !.proc.ret = "request_find",
                !.proc.pc = IF cur = 0 THEN "request_lock" ELSE "ensure_lock"]

\* A failed lock that is not caught ends the request with an error.
Request_lock_throw(w) ==
  IF CanLock(w, w.proc.env)
  THEN At(lock(w, w.proc.env, w.proc.sha), "request_find")
  ELSE Finish(w, "error", "lock")

Request_lock(w) ==
  IF CanLock(w, w.proc.env)
  THEN At(lock(w, w.proc.env, w.proc.sha), "request_find")
  ELSE Finish(w, "done", "lock")

\* A check run that is not the latest of the commit and environment is stale.
Request_find(w) ==
  IF CheckFind(w, w.proc.sha, w.proc.env) # w.proc.run
  THEN Finish(w, "done", "stale")
  ELSE At(w, "request_check")

Request_check(w) ==
  [w EXCEPT !.checks = Append(w.checks, NewCheck(w.proc.sha, w.proc.env)),
            !.proc.chk = Len(w.checks) + 1,
            !.proc.pc = IF ConfigGet(w.proc.env).err THEN "request_invalid"
                        ELSE IF w.proc.cur # 0 THEN "request_flow"
                        ELSE "request_create"]

Request_invalid(w) ==
  Finish(SetCheck(w, w.proc.chk, "completed", "failure", <<>>), "done", "invalid")

Request_flow(w) ==
  LET flow == WorkflowGet(w, w.proc.sha, w.proc.env)
  IN  IF flow = 0 THEN Finish(w, "error", "flow")
      ELSE [w EXCEPT !.proc.flow = flow, !.proc.pc = "request_artifacts"]

Request_artifacts(w) ==
  [w EXCEPT !.proc.arts = Overlay(w.deps[w.proc.cur].artifacts,
                                  w.runs[w.proc.flow].artifacts),
            !.proc.pc = "request_create"]

Request_create(w) ==
  IF w.refs[w.proc.env] = NoSha THEN Finish(w, "error", "create")
  ELSE LET cur == w.proc.cur
           stages == ConfigGet(w.proc.env).cfg.stages
           new == IF cur # 0
                  THEN NewDeployment(w, w.proc.env, w.proc.chk,
                         <<"deploy", w.proc.action>>,
                         unique(ActionStages(stages, w.deps[cur].stages, w.proc.action)),
                         w.deps[cur].completed_stages \o w.deps[cur].stages,
                         w.proc.arts)
                  ELSE NewDeployment(w, w.proc.env, w.proc.chk, <<"deploy">>,
                         EntryStages(stages), <<>>, <<>>)
       IN  [w EXCEPT !.deps = Append(w.deps, new),
                     !.proc.dep = Len(w.deps) + 1,
                     !.proc.pc = "request_queued"]

Request_queued(w) ==
  LET set == SetStatus(w, "queued", w.proc.dep, w.proc.chk, "queued", "queued",
                       w.checks[w.proc.chk].conclusion, w.checks[w.proc.chk].actions)
  IN  IF set.proc.kind = "idle" THEN set
      ELSE IF w.proc.cur # 0 THEN At(set, "request_remove")
      ELSE Finish(set, "done", "end")

\* deployment.remove: mark the deployment inactive, then delete it.
Request_remove(w) ==
  IF w.deps[w.proc.cur].deleted THEN Finish(w, "error", "remove")
  ELSE Finish([w EXCEPT !.deps[w.proc.cur].state = "inactive",
                        !.deps[w.proc.cur].deleted = TRUE], "done", "end")

(***************************************************************************)
(* Repository.rerequest(sha, env, last).                                   *)
(***************************************************************************)
Rerequest_get(w) ==
  LET cur == DeploymentGet(w, w.proc.sha, w.proc.env, w.proc.run)
  IN  [w EXCEPT !.proc.cur = cur, !.proc.ret = "rerequest_last",
                !.proc.pc = IF cur = 0 THEN "rerequest_lock" ELSE "ensure_lock"]

Rerequest_lock(w) ==
  IF CanLock(w, w.proc.env)
  THEN At(lock(w, w.proc.env, w.proc.sha), "rerequest_last")
  ELSE Finish(w, "done", "lock")

\* check.get of the previous check run: only a failed check is repeated.
Rerequest_last(w) ==
  LET chk == w.checks[w.proc.run]
  IN  IF chk.status # "completed" \/ chk.conclusion # "failure"
      THEN Finish(w, "done", "last")
      ELSE At(w, "rerequest_check")

Rerequest_check(w) ==
  [w EXCEPT !.checks = Append(w.checks, NewCheck(w.proc.sha, w.proc.env)),
            !.proc.chk = Len(w.checks) + 1,
            !.proc.pc = IF ~exists THEN "rerequest_missing"
                        ELSE IF ConfigGet(w.proc.env).err THEN "rerequest_invalid"
                        ELSE "rerequest_create"]

Rerequest_missing(w) ==
  Finish(SetCheck(w, w.proc.chk, "completed", "failure", <<>>), "done", "missing")

Rerequest_invalid(w) ==
  Finish(SetCheck(w, w.proc.chk, "completed", "failure", <<>>), "done", "invalid")

\* A repeat that starts the payload of the unit afresh.
Rerequest_create_reset(w) ==
  IF w.refs[w.proc.env] = NoSha THEN Finish(w, "error", "create")
  ELSE LET cur == w.proc.cur
           new == IF cur # 0
                  THEN NewDeployment(w, w.proc.env, w.proc.chk, w.deps[cur].task,
                         w.deps[cur].stages, <<>>, <<>>)
                  ELSE NewDeployment(w, w.proc.env, w.proc.chk, <<"deploy">>,
                         EntryStages(ConfigGet(w.proc.env).cfg.stages), <<>>, <<>>)
       IN  [w EXCEPT !.deps = Append(w.deps, new),
                     !.proc.dep = Len(w.deps) + 1,
                     !.proc.pc = "rerequest_queued"]

Rerequest_create(w) ==
  IF w.refs[w.proc.env] = NoSha THEN Finish(w, "error", "create")
  ELSE LET cur == w.proc.cur
           new == IF cur # 0
                  THEN NewDeployment(w, w.proc.env, w.proc.chk, w.deps[cur].task,
                         w.deps[cur].stages, w.deps[cur].completed_stages,
                         w.deps[cur].artifacts)
                  ELSE NewDeployment(w, w.proc.env, w.proc.chk, <<"deploy">>,
                         EntryStages(ConfigGet(w.proc.env).cfg.stages), <<>>, <<>>)
       IN  [w EXCEPT !.deps = Append(w.deps, new),
                     !.proc.dep = Len(w.deps) + 1,
                     !.proc.pc = "rerequest_queued"]

Rerequest_queued(w) ==
  LET set == SetStatus(w, "queued", w.proc.dep, w.proc.chk, "queued", "queued",
                       w.checks[w.proc.chk].conclusion, w.checks[w.proc.chk].actions)
  IN  IF set.proc.kind = "idle" THEN set
      ELSE IF w.proc.cur # 0 THEN At(set, "rerequest_remove")
      ELSE Finish(set, "done", "end")

Rerequest_remove(w) ==
  IF w.deps[w.proc.cur].deleted THEN Finish(w, "error", "remove")
  ELSE Finish([w EXCEPT !.deps[w.proc.cur].state = "inactive",
                        !.deps[w.proc.cur].deleted = TRUE], "done", "end")

(***************************************************************************)
(* Repository.started(sha, env, suite).                                    *)
(***************************************************************************)
Started_flow(w) ==
  LET run == WorkflowGet(w, w.proc.sha, w.proc.env)
  IN  IF run = 0 THEN Finish(w, "error", "flow")
      ELSE IF ~UrlIncludes(w.runs[run].suite, w.proc.suite) THEN Finish(w, "error", "suite")
      ELSE IF w.runs[run].status = "completed" THEN Finish(w, "done", "run")
      ELSE [w EXCEPT !.proc.flow = run, !.proc.pc = "started_dep"]

Started_dep(w) ==
  LET dep == DeploymentGet(w, w.proc.sha, w.proc.env, 0)
  IN  IF dep = 0 THEN Finish(w, "error", "dep")
      ELSE [w EXCEPT !.proc.dep = dep, !.proc.chk = w.deps[dep].check_run_id,
                     !.proc.pc = "started_chk"]

\* Only a check run that is still queued is started.
Started_chk(w) ==
  IF w.checks[w.proc.chk].status # "queued"
  THEN Finish(w, "done", "chk")
  ELSE At(w, "started_status")

Started_status(w) ==
  LET set == SetStatus(w, "status", w.proc.dep, w.proc.chk, "in_progress", "in_progress",
                       w.checks[w.proc.chk].conclusion, w.checks[w.proc.chk].actions)
  IN  IF set.proc.kind = "idle" THEN set ELSE Finish(set, "done", "end")

(***************************************************************************)
(* Repository.completed(sha, env, suite).                                  *)
(***************************************************************************)
Completed_flow(w) ==
  LET run == WorkflowGet(w, w.proc.sha, w.proc.env)
  IN  IF run = 0 THEN Finish(w, "error", "flow")
      ELSE IF ~UrlIncludes(w.runs[run].suite, w.proc.suite) THEN Finish(w, "error", "suite")
      ELSE IF w.runs[run].status # "completed" THEN Finish(w, "done", "run")
      ELSE [w EXCEPT !.proc.flow = run, !.proc.pc = "completed_dep"]

Completed_dep(w) ==
  LET dep == DeploymentGet(w, w.proc.sha, w.proc.env, 0)
  IN  IF dep = 0 THEN Finish(w, "error", "dep")
      ELSE [w EXCEPT !.proc.dep = dep, !.proc.chk = w.deps[dep].check_run_id,
                     !.proc.pc = "completed_chk"]

\* A success that never looks at the actions of the current stages.
SuccessOutcome_plain(env, stages) == "success"

\* The outcome a success posts: incomplete while the current stages declare
\* actions, success otherwise (also when the configuration does not load).
SuccessOutcome(env, stages) ==
  LET got == ConfigGet(env)
  IN  IF ~got.err /\ FurtherActions(got.cfg.stages, stages) # <<>>
      THEN "incomplete" ELSE "success"

\* A completed check run ends the handler at once, the lock left as it is.
Completed_chk_return(w) ==
  LET conclusion == w.runs[w.proc.flow].conclusion
  IN  IF w.checks[w.proc.chk].status = "completed" THEN Finish(w, "done", "chk")
      ELSE At(w, IF conclusion = "success"
                 THEN IF SuccessOutcome(w.proc.env, w.deps[w.proc.dep].stages) = "incomplete"
                      THEN "completed_incomplete" ELSE "completed_success"
                 ELSE IF conclusion = "failure" THEN "completed_failure"
                 ELSE "completed_unlock")

\* check.get, then the switch on the conclusion of the workflow run.
Completed_chk(w) ==
  LET conclusion == w.runs[w.proc.flow].conclusion
  IN  At(w, IF w.checks[w.proc.chk].status = "completed" THEN "completed_unlock"
            ELSE IF conclusion = "success"
                 THEN IF SuccessOutcome(w.proc.env, w.deps[w.proc.dep].stages) = "incomplete"
                      THEN "completed_incomplete" ELSE "completed_success"
            ELSE IF conclusion = "failure" THEN "completed_failure"
            ELSE "completed_unlock")

Completed_incomplete(w) ==
  LET set == SetStatus(w, "status", w.proc.dep, w.proc.chk, "pending", "completed",
                       "action_required",
                       FurtherActions(ConfigGet(w.proc.env).cfg.stages,
                                      w.deps[w.proc.dep].stages))
  IN  IF set.proc.kind = "idle" THEN set ELSE Finish(set, "done", "incomplete")

Completed_success(w) ==
  LET set == SetStatus(w, "status", w.proc.dep, w.proc.chk, "success", "completed",
                       "success", w.checks[w.proc.chk].actions)
  IN  IF set.proc.kind = "idle" THEN set ELSE At(set, "completed_unlock")

Completed_failure(w) ==
  LET set == SetStatus(w, "status", w.proc.dep, w.proc.chk, "failure", "completed",
                       "failure", w.checks[w.proc.chk].actions)
  IN  IF set.proc.kind = "idle" THEN set ELSE At(set, "completed_unlock")

\* git.deleteRef fails when the branch does not exist.
Completed_unlock(w) ==
  IF w.refs[w.proc.env] = NoSha THEN Finish(w, "error", "unlock")
  ELSE Finish(unlock(w, w.proc.env), "done", "unlock")

(***************************************************************************)
(* Repository.status(payload).                                             *)
(***************************************************************************)
\* deployment.load and check.get, then the switch on payload.state.
Status_load(w) ==
  LET dep == w.proc.dep
      got == [w EXCEPT !.proc.chk = w.deps[dep].check_run_id,
                       !.proc.env = w.deps[dep].env,
                       !.proc.sha = w.deps[dep].sha]
  IN  IF w.deps[dep].deleted THEN Finish(w, "error", "load")
      ELSE IF w.proc.state = "success"
           THEN At(got, IF SuccessOutcome(w.deps[dep].env, w.deps[dep].stages) = "incomplete"
                        THEN "status_incomplete" ELSE "status_success")
      ELSE IF w.proc.state = "failure" THEN At(got, "status_failure")
      ELSE Finish(w, "done", "state")

Status_incomplete(w) ==
  LET set == SetStatus(w, "status", w.proc.dep, w.proc.chk, "pending", "completed",
                       "action_required",
                       FurtherActions(ConfigGet(w.proc.env).cfg.stages,
                                      w.deps[w.proc.dep].stages))
  IN  IF set.proc.kind = "idle" THEN set ELSE Finish(set, "done", "incomplete")

Status_success(w) ==
  LET set == SetStatus(w, "status", w.proc.dep, w.proc.chk, "success", "completed",
                       "success", w.checks[w.proc.chk].actions)
  IN  IF set.proc.kind = "idle" THEN set ELSE Finish(set, "done", "success")

\* A failure report that marks the deployment and leaves the check neutral.
Status_failure_neutral(w) ==
  LET set == SetStatus(w, "status", w.proc.dep, w.proc.chk, "failure", "completed",
                       "neutral", w.checks[w.proc.chk].actions)
  IN  IF set.proc.kind = "idle" THEN set ELSE Finish(set, "done", "failure")

Status_failure(w) ==
  LET set == SetStatus(w, "status", w.proc.dep, w.proc.chk, "failure", "completed",
                       "failure", w.checks[w.proc.chk].actions)
  IN  IF set.proc.kind = "idle" THEN set ELSE Finish(set, "done", "failure")

(***************************************************************************)
(* A handler, one platform call at a time, and to its end.                 *)
(***************************************************************************)
StepOf(w) ==
  LET pc == w.proc.pc
  IN  CASE pc = "ensure_lock" -> Ensure_lock(w)
        [] pc = "ensure_getRef" -> Ensure_getRef(w)
        [] pc = "deploy_listSuites" -> Deploy_listSuites(w)
        [] pc = "deploy_once" -> Deploy_once(w)
        [] pc = "deploy_check" -> Deploy_check(w)
        [] pc = "deploy_missing" -> Deploy_missing(w)
        [] pc = "deploy_invalid" -> Deploy_invalid(w)
        [] pc = "deploy_lock" -> Deploy_lock(w)
        [] pc = "deploy_ready" -> Deploy_ready(w)
        [] pc = "deploy_create" -> Deploy_create(w)
        [] pc = "deploy_queued" -> Deploy_queued(w)
        [] pc = "request_get" -> Request_get(w)
        [] pc = "request_lock" -> Request_lock(w)
        [] pc = "request_find" -> Request_find(w)
        [] pc = "request_check" -> Request_check(w)
        [] pc = "request_invalid" -> Request_invalid(w)
        [] pc = "request_flow" -> Request_flow(w)
        [] pc = "request_artifacts" -> Request_artifacts(w)
        [] pc = "request_create" -> Request_create(w)
        [] pc = "request_queued" -> Request_queued(w)
        [] pc = "request_remove" -> Request_remove(w)
        [] pc = "rerequest_get" -> Rerequest_get(w)
        [] pc = "rerequest_lock" -> Rerequest_lock(w)
        [] pc = "rerequest_last" -> Rerequest_last(w)
        [] pc = "rerequest_check" -> Rerequest_check(w)
        [] pc = "rerequest_missing" -> Rerequest_missing(w)
        [] pc = "rerequest_invalid" -> Rerequest_invalid(w)
        [] pc = "rerequest_create" -> Rerequest_create(w)
        [] pc = "rerequest_queued" -> Rerequest_queued(w)
        [] pc = "rerequest_remove" -> Rerequest_remove(w)
        [] pc = "started_flow" -> Started_flow(w)
        [] pc = "started_dep" -> Started_dep(w)
        [] pc = "started_chk" -> Started_chk(w)
        [] pc = "started_status" -> Started_status(w)
        [] pc = "completed_flow" -> Completed_flow(w)
        [] pc = "completed_dep" -> Completed_dep(w)
        [] pc = "completed_chk" -> Completed_chk(w)
        [] pc = "completed_incomplete" -> Completed_incomplete(w)
        [] pc = "completed_success" -> Completed_success(w)
        [] pc = "completed_failure" -> Completed_failure(w)
        [] pc = "completed_unlock" -> Completed_unlock(w)
        [] pc = "status_load" -> Status_load(w)
        [] pc = "status_incomplete" -> Status_incomplete(w)
        [] pc = "status_success" -> Status_success(w)
        [] pc = "status_failure" -> Status_failure(w)

RECURSIVE RunOf(_)
RunOf(w) == IF w.proc.kind = "idle" THEN w ELSE RunOf(StepOf(w))

\* The worlds a handler passes through, from its first await to its end.
RECURSIVE Trail(_)
Trail(w) == IF w.proc.kind = "idle" THEN {w} ELSE {w} \cup Trail(StepOf(w))

\* The events the webhooks hand to the handlers.
DeployEvent(sha, branch, trigger) ==
  [Idle EXCEPT !.kind = "deploy", !.pc = "deploy_listSuites", !.sha = sha,
               !.branch = branch, !.trigger = trigger]

RequestEvent(sha, env, run, action) ==
  [Idle EXCEPT !.kind = "request", !.pc = "request_get", !.sha = sha, !.env = env,
               !.run = run, !.action = action]

RerequestEvent(sha, env, last) ==
  [Idle EXCEPT !.kind = "rerequest", !.pc = "rerequest_get", !.sha = sha, !.env = env,
               !.run = last]

StartedEvent(sha, env, suite) ==
  [Idle EXCEPT !.kind = "started", !.pc = "ensure_lock", !.ret = "started_flow",
               !.sha = sha, !.env = env, !.suite = suite]

CompletedEvent(sha, env, suite) ==
  [Idle EXCEPT !.kind = "completed", !.pc = "ensure_lock", !.ret = "completed_flow",
               !.sha = sha, !.env = env, !.suite = suite]

StatusEvent(deployment, state) ==
  [Idle EXCEPT !.kind = "status", !.pc = "status_load", !.dep = deployment,
               !.state = state]

\* The world after worker p has handled the event from start to end.
After(p, event) == RunOf([World(p) EXCEPT !.proc = event])

\* Write a world back to the platform; a worker whose handler has ended waits
\* for the next delivery.
Becomes(p, w) ==
  /\ suites' = w.suites
  /\ checks' = w.checks
  /\ deps' = w.deps
  /\ runs' = w.runs
  /\ refs' = w.refs
  /\ procs' = [procs EXCEPT ![p] = IF w.proc.kind = "idle" THEN Idle ELSE w.proc]
  /\ UNCHANGED <<list, exists, input, output>>


(***************************************************************************)
(* The workflow runner: a deployment event starts a run on the             *)
(* deployments/<env> branch, and the run finishes with a conclusion.       *)
(***************************************************************************)
RunCreated ==
  \E d \in 1..Len(deps), suite \in SuiteIds :
    /\ exists
    /\ \A r \in 1..Len(runs) : runs[r].dep # d /\ runs[r].suite < suite
    /\ runs' = Append(runs, [dep |-> d, env |-> deps[d].env, sha |-> deps[d].sha,
                             suite |-> suite, status |-> "in_progress",
                             conclusion |-> "none", artifacts |-> <<>>])
    /\ UNCHANGED <<list, exists, suites, checks, deps, refs, procs, input, output>>

RunCompleted ==
  \E r \in 1..Len(runs), conclusion \in RunConclusions, names \in SUBSET ArtifactNames :
    /\ runs[r].status = "in_progress"
    /\ conclusion # "success" => names = {}
    /\ runs' = [runs EXCEPT ![r].status = "completed", ![r].conclusion = conclusion,
                            ![r].artifacts = [n \in names |-> runs[r].suite]]
    /\ UNCHANGED <<list, exists, suites, checks, deps, refs, procs, input, output>>

(***************************************************************************)
(* Webhook deliveries: any event the platform has sent may arrive, late    *)
(* and more than once.                                                     *)
(***************************************************************************)
\* onPush, onPullRequest
DeployEvents ==
  {DeployEvent(sha, branch, trigger) :
     sha \in Shas, branch \in Branches, trigger \in CommitTriggers}

\* onCheckRunRequestedAction: an action the check run has offered.
RequestEvents ==
  UNION {{RequestEvent(checks[run].sha, checks[run].env, run, checks[run].actions[k]) :
            k \in 1..Len(checks[run].actions)} : run \in 1..Len(checks)}

\* onCheckRunRerequested
RerequestEvents ==
  {RerequestEvent(checks[run].sha, checks[run].env, run) : run \in 1..Len(checks)}

\* onCheckRunCreated: a check run of the workflow runner on a deployments branch.
StartedEvents ==
  {StartedEvent(runs[r].sha, runs[r].env, runs[r].suite) : r \in 1..Len(runs)}

\* onCheckSuiteCompleted: the suite of a finished workflow run.
CompletedEvents ==
  {CompletedEvent(runs[r].sha, runs[r].env, runs[r].suite) :
     r \in {r \in 1..Len(runs) : runs[r].status = "completed"}}

\* onRepositoryDispatch: a status that a step of a workflow run reports.
StatusEvents ==
  {StatusEvent(runs[r].dep, state) : r \in 1..Len(runs), state \in StatusStates}

\* The check runs a handler in flight may still create.
Need(kind) ==
  IF kind = "deploy" THEN Len(list)
  ELSE IF kind \in {"request", "rerequest"} THEN 1
  ELSE 0

RECURSIVE Reserved(_)
Reserved(ps) ==
  IF ps = {} THEN 0
  ELSE LET q == CHOOSE q \in ps : TRUE IN Need(procs[q].kind) + Reserved(ps \ {q})

\* Worker p handles the event from start to end, no other handler in between.
Handle(p, event) ==
  /\ \A q \in Procs : procs[q].kind = "idle"
  /\ Len(After(p, event).checks) <= MaxChecks
  /\ Becomes(p, After(p, event))

Deploy == \E event \in DeployEvents : Handle("p1", event)

Request == \E event \in RequestEvents : Handle("p1", event)

Rerequest == \E event \in RerequestEvents : Handle("p1", event)

Started == \E event \in StartedEvents : Handle("p1", event)

Completed == \E event \in CompletedEvents : Handle("p1", event)

Status == \E event \in StatusEvents : Handle("p1", event)

\* Worker p takes the event when the check runs in flight stay within max;
\* the second worker takes one while the first is busy.
DeliverWithin(p, event, max) ==
  /\ procs[p].kind = "idle"
  /\ p = "p2" => procs["p1"].kind # "idle"
  /\ Len(checks) + Reserved(Procs) + Need(event.kind) <= max
  /\ procs' = [procs EXCEPT ![p] = event]
  /\ UNCHANGED <<list, exists, suites, checks, deps, runs, refs, input, output>>

Deliver(p, event) == DeliverWithin(p, event, MaxChecks)

DeliverDeploy == \E p \in Procs, event \in DeployEvents : Deliver(p, event)

DeliverCompleted == \E p \in Procs, event \in CompletedEvents : Deliver(p, event)

\* A request and its duplicate in flight create a check run each.
DeliverRequest ==
  \E p \in Procs, event \in RequestEvents : DeliverWithin(p, event, MaxRaceChecks)

DeliverStarted == \E p \in Procs, event \in StartedEvents : Deliver(p, event)

\* A worker makes the next platform call of its handler.
Step == \E p \in Procs : procs[p].kind # "idle" /\ Becomes(p, StepOf(World(p)))

\* No config value is under validation while the handlers run.
NoValue == [kind |-> "none"]

Init ==
  /\ list \in Listings
  /\ exists \in BOOLEAN
  /\ suites = {}
  /\ checks = <<>>
  /\ deps = <<>>
  /\ runs = <<>>
  /\ refs = [e \in Envs |-> NoSha]
  /\ procs = [p \in Procs |-> Idle]
  /\ input = NoValue
  /\ output = NoValue

\* Deliveries are handled one after the other.
Next ==
  \/ RunCreated
  \/ RunCompleted
  \/ Deploy
  \/ Request
  \/ Rerequest
  \/ Started
  \/ Completed
  \/ Status

Spec == Init /\ [][Next]_vars

\* Two workers handle commit events at the same time.
NextDeployRace ==
  \/ DeliverDeploy
  \/ Step

SpecDeployRace == Init /\ [][NextDeployRace]_vars

\* Two workers handle commit events and the completions of workflow runs at
\* the same time: every call of lock and unlock is a step of its own.
NextLockRace ==
  \/ RunCreated
  \/ RunCompleted
  \/ DeliverDeploy
  \/ DeliverCompleted
  \/ Step

\* One environment, with its deployment workflow in place.
InitLockRace == Init /\ exists /\ Len(list) = 1

SpecLockRace == InitLockRace /\ [][NextLockRace]_vars

\* Commit events are handled one at a time; two workers handle the started and
\* completed events of the workflow runs at the same time.
NextStartRace ==
  \/ RunCreated
  \/ RunCompleted
  \/ Deploy
  \/ DeliverStarted
  \/ DeliverCompleted
  \/ Step

SpecStartRace == InitLockRace /\ [][NextStartRace]_vars

\* Commit events and the completions of workflow runs are handled one at a
\* time; two workers handle manual action requests at the same time.
NextRequestRace ==
  \/ RunCreated
  \/ RunCompleted
  \/ Deploy
  \/ Completed
  \/ DeliverRequest
  \/ Step

SpecRequestRace == InitLockRace /\ [][NextRequestRace]_vars

\* The completed event of one finished run reaches the worker, which handles
\* it one platform call at a time.
DeliverCompletedOf(sha, env, suite) ==
  /\ CompletedEvent(sha, env, suite) \in CompletedEvents
  /\ Deliver("p1", CompletedEvent(sha, env, suite))

DeliverCompletedAny ==
  \E sha \in Shas, env \in Envs, suite \in SuiteIds : DeliverCompletedOf(sha, env, suite)

NextFair ==
  \/ RunCreated
  \/ RunCompleted
  \/ Deploy
  \/ Request
  \/ Rerequest
  \/ Started
  \/ Status
  \/ DeliverCompletedAny
  \/ Step

\* Fair delivery: the runner creates the workflow run of a deployment and
\* the run finishes; the completed event of every finished run is delivered
\* whenever the worker is free again and again, and a handler in flight goes
\* on to its end.
FairDelivery ==
  /\ WF_vars(RunCreated)
  /\ WF_vars(RunCompleted)
  /\ WF_vars(Step)
  /\ \A sha \in Shas, env \in Envs, suite \in SuiteIds :
       SF_vars(DeliverCompletedOf(sha, env, suite))

\* One environment, with the deployment workflow in place.
SpecFair == InitLockRace /\ [][NextFair]_vars /\ FairDelivery

(***************************************************************************)
(* The config package on its own: a config value is drawn, and the schema, *)
(* Config.matches or Config.list is applied to it.                         *)
(***************************************************************************)
TriggerNames == {"push", "pull_request", "manual"}

\* Stage names a needs or runs value may state: the declared stages, a name
\* that is not declared, and a name that every object inherits.
StageKeys == <<"a", "b", "c">>
RefNames == {"a", "b", "c", "x", "constructor"}

\* Lists without repetition, as .unique() demands.
RefLists ==
  UNION {{l \in [1..n -> RefNames] : \A i \in 1..n, j \in 1..n : l[i] = l[j] => i = j} :
         n \in 0..MaxRefs}

\* Three stages with any needs, and three stages of which the first has an
\* action with any runs.
StageInputs ==
  {[kind |-> "stages",
    stages |-> [k \in 1..3 |-> Stage(StageKeys[k], needs[k], <<>>)]] :
     needs \in [1..3 -> {NoNeeds} \cup {Needs(l) : l \in RefLists}]}
  \cup
  {[kind |-> "stages",
    stages |-> <<Stage("a", NoNeeds, <<Action("go", l)>>),
                 Stage("b", NoNeeds, <<>>),
                 Stage("c", NoNeeds, <<>>)>>] : l \in RefLists \ {<<>>}}

\* A trigger of the map form: null, {} or {branches: [...]}.
TriggerValues ==
  {TriggerNull, [null |-> FALSE, branches |-> NoBranches]}
  \cup {TriggerBranches(names) : names \in SUBSET Branches}

TriggerInputs ==
  {[kind |-> "triggers", on |-> OnString(name)] : name \in TriggerNames}
  \cup {[kind |-> "triggers", on |-> OnArray(names)] : names \in SUBSET TriggerNames \ {{}}}
  \cup UNION {{[kind |-> "triggers", on |-> OnMap(map)] : map \in [keys -> TriggerValues]} :
              keys \in SUBSET TriggerNames \ {{}}}

\* The entries of a directory: config files with and without an id of their
\* own, valid or not, a file that is no config and a directory.
Files ==
  {[type |-> "file", base |-> base, ext |-> ext, id |-> id, valid |-> valid] :
     base \in {<<"a", "b">>, <<"a", "_", "b">>, <<"a", "-", "_", "b">>},
     ext \in {"yml", "yaml", "txt"},
     id \in {<<>>, <<"a", "b">>, <<"a", "-", "b">>},
     valid \in BOOLEAN}
  \cup {[type |-> "dir", base |-> <<"a", "b">>, ext |-> "yml", id |-> <<>>, valid |-> TRUE]}

\* Directories: the names of the entries differ.
DirInputs ==
  UNION {{[kind |-> "files", files |-> files] :
            files \in {f \in [1..n -> Files] :
                         \A i \in 1..n, j \in 1..n :
                           (f[i].base = f[j].base /\ f[i].ext = f[j].ext) => i = j}} :
         n \in 0..MaxFiles}

InitConfig ==
  /\ list = <<>>
  /\ exists = FALSE
  /\ suites = {}
  /\ checks = <<>>
  /\ deps = <<>>
  /\ runs = <<>>
  /\ refs = [e \in Envs |-> NoSha]
  /\ procs = [p \in Procs |-> Idle]
  /\ input \in StageInputs \cup TriggerInputs \cup DirInputs
  /\ output = NoValue

\* schema.validateAsync: the custom rules over the stages.
Validate ==
  /\ input.kind = "stages"
  /\ output.kind = "none"
  /\ output' = [kind |-> "validate", reports |-> Reports(input.stages)]
  /\ UNCHANGED <<list, exists, suites, checks, deps, runs, refs, procs, input>>

\* cfg.matches(trigger, branch)
Match ==
  \E trigger \in TriggerNames, branch \in Branches :
    /\ input.kind = "triggers"
    /\ output.kind = "none"
    /\ output' = [kind |-> "match", trigger |-> trigger, branch |-> branch,
                  value |-> matches(input.on, trigger, branch)]
    /\ UNCHANGED <<list, exists, suites, checks, deps, runs, refs, procs, input>>

\* Config.list(api, params)
List ==
  /\ input.kind = "files"
  /\ output.kind = "none"
  /\ output' = [kind |-> "list", items |-> ConfigList(input.files)]
  /\ UNCHANGED <<list, exists, suites, checks, deps, runs, refs, procs, input>>

NextConfig ==
  \/ Validate
  \/ Match
  \/ List

SpecConfig == InitConfig /\ [][NextConfig]_vars

(***************************************************************************)
(* The stages of the units of one deployment: a valid config is drawn, the *)
(* first unit is created as deploy creates it, a successful run offers the *)
(* actions of the unit's stages as completed does, and a requested action  *)
(* creates the successor as request does.                                  *)
(***************************************************************************)
\* The units of one deployment that are followed.
MaxUnits == 3

\* The name a stage gives to an action it declares: the names that different
\* stages give are different.
ActionName(stage, id) == <<stage.key, id>>

\* The loop of completed and status over the stages of the unit: an action is
\* collected unless the map of actions has a value under its id already.
RECURSIVE Collect(_, _)
Collect(declared, items) ==
  IF declared = <<>> THEN items
  ELSE LET action == Head(declared)
           held == \/ action.identifier \in ObjectPrototype
                   \/ \E k \in 1..Len(items) : items[k].identifier = action.identifier
       IN  Collect(Tail(declared), IF held THEN items ELSE Append(items, action))

\* util.values(actions): the actions offered on the incomplete check.
Offered(stages, current) ==
  Collect(Concat([k \in 1..Len(current) |->
            LET found == StageByKey(stages, current[k])
            IN  IF found = <<>> THEN <<>>
                ELSE [j \in 1..Len(found[1].actions) |->
                        [identifier |-> found[1].actions[j].id,
                         label |-> ActionName(found[1], found[1].actions[j].id)]]]),
          <<>>)

\* The runs of the action of the first stage: one or more declared stages.
RunLists ==
  {l \in RefLists : l # <<>> /\ \A k \in 1..Len(l) : Includes(StageKeys, l[k])}

NeedsValues ==
  {NoNeeds} \cup {Needs(l) : l \in {r \in RefLists : \A k \in 1..Len(r) : Includes(StageKeys, r[k])}}

\* Configs of three stages that the schema accepts: the first may declare an
\* action go, the others an action x that goes back to the first.
ConfigInputs ==
  {c \in {[kind |-> "config",
           stages |-> <<Stage("a", needs[1], go),
                        Stage("b", needs[2], x[1]),
                        Stage("c", needs[3], x[2])>>] :
            needs \in [1..3 -> NeedsValues],
            go \in {<<>>} \cup {<<Action("go", l)>> : l \in RunLists},
            x \in [1..2 -> {<<>>, <<Action("x", <<"a">>)>>}]} :
     Reports(c.stages) = {}}

Unit(n, stages, completed, items) ==
  [kind |-> "unit", n |-> n, stages |-> stages, completed |-> completed, items |-> items]

InitStages ==
  /\ list = <<>>
  /\ exists = FALSE
  /\ suites = {}
  /\ checks = <<>>
  /\ deps = <<>>
  /\ runs = <<>>
  /\ refs = [e \in Envs |-> NoSha]
  /\ procs = [p \in Procs |-> Idle]
  /\ input \in ConfigInputs
  /\ output = NoValue

\* deploy: the first unit, with the stages that declare no needs.
Begin ==
  /\ output.kind = "none"
  /\ output' = Unit(1, EntryStages(input.stages), <<>>, <<>>)
  /\ UNCHANGED <<list, exists, suites, checks, deps, runs, refs, procs, input>>

\* completed on a successful run: the actions of the unit's stages are
\* offered on its check.
Offer ==
  /\ output.kind = "unit"
  /\ output.items = <<>>
  /\ Offered(input.stages, output.stages) # <<>>
  /\ output' = [output EXCEPT !.items = Offered(input.stages, output.stages)]
  /\ UNCHANGED <<list, exists, suites, checks, deps, runs, refs, procs, input>>

\* request of an offered action: the successor unit.
Continue ==
  /\ output.kind = "unit"
  /\ output.n < MaxUnits
  /\ \E k \in 1..Len(output.items) :
    /\ output' = Unit(output.n + 1,
                      unique(ActionStages(input.stages, output.stages,
                                          output.items[k].identifier)),
                      output.completed \o output.stages, <<>>)
    /\ UNCHANGED <<list, exists, suites, checks, deps, runs, refs, procs, input>>

NextStages ==
  \/ Begin
  \/ Offer
  \/ Continue

SpecStages == InitStages /\ [][NextStages]_vars

(***************************************************************************)
(* util.cycles call by call: a needs graph and a start node are drawn, and *)
(* detect runs one iteration of its loop at a time on a stack of calls.    *)
(***************************************************************************)
\* The deepest stack of detect calls that is followed.
MaxDepth == 5

GraphNames == {"a", "b", "c", "x"}

\* The edges of a stage: declared stages, itself included, and a name that
\* is not declared, without repetition.
EdgeLists ==
  UNION {{l \in [1..n -> GraphNames] : \A i \in 1..n, j \in 1..n : l[i] = l[j] => i = j} :
         n \in 0..MaxRefs}

GraphInputs ==
  {[kind |-> "graph", graph |-> graph, start |-> start] :
     graph \in [{"a", "b", "c"} -> EdgeLists], start \in GraphNames}

\* One call of detect(root, edges, visited), at edge i of its loop.
Frame(edges, visited) == [edges |-> edges, i |-> 1, visited |-> visited]

\* A recursion that does not record the edge it follows.
Visits_none(visited, edge) == visited

\* [...visited, edge]
Visits(visited, edge) == Append(visited, edge)

\* The call on top of the stack returns to its caller.
Returns(m) ==
  LET rest == SubSeq(m.stack, 1, Len(m.stack) - 1)
  IN  [m EXCEPT !.stack = rest,
                !.status = IF rest = <<>> THEN "returned" ELSE "running"]

\* One iteration of the loop of the call on top of the stack, over its edge
\* i: a visited edge is recorded when the path has come back to root and
\* ends the loop, an edge that is not visited is a call of detect on
\* graph[edge], which is no array for a name that is not declared.
Iteration(graph, root, m) ==
  LET top  == m.stack[Len(m.stack)]
      rest == SubSeq(m.stack, 1, Len(m.stack) - 1)
      edge == top.edges[top.i]
  IN  IF Includes(top.visited, edge)
      THEN Returns(IF top.visited[Len(top.visited)] = root
                   THEN [m EXCEPT !.out = Append(@, Join(<<root>> \o top.visited))]
                   ELSE m)
      ELSE IF edge \notin DOMAIN graph
           THEN [m EXCEPT !.stack = <<>>, !.status = "thrown"]
           ELSE [m EXCEPT !.stack = rest \o <<[top EXCEPT !.i = @ + 1]>>
                                         \o <<Frame(graph[edge], Visits(top.visited, edge))>>]

InitCycles ==
  /\ list = <<>>
  /\ exists = FALSE
  /\ suites = {}
  /\ checks = <<>>
  /\ deps = <<>>
  /\ runs = <<>>
  /\ refs = [e \in Envs |-> NoSha]
  /\ procs = [p \in Procs |-> Idle]
  /\ input \in GraphInputs
  /\ output = NoValue

\* cycles(graph, start): detect(start, graph[start], [])
CallCycles ==
  /\ output.kind = "none"
  /\ output' = IF input.start \in DOMAIN input.graph
               THEN [kind |-> "detect", out |-> <<>>, status |-> "running",
                     stack |-> <<Frame(input.graph[input.start], <<>>)>>]
               ELSE [kind |-> "detect", out |-> <<>>, status |-> "thrown", stack |-> <<>>]
  /\ UNCHANGED <<list, exists, suites, checks, deps, runs, refs, procs, input>>

\* for (const edge of edges): the next edge of the innermost call.
DetectEdge ==
  /\ output.kind = "detect"
  /\ output.status = "running"
  /\ LET top == output.stack[Len(output.stack)]
     IN  /\ top.i <= Len(top.edges)
         /\ output' = Iteration(input.graph, input.start, output)
  /\ Len(output'.stack) <= MaxDepth
  /\ UNCHANGED <<list, exists, suites, checks, deps, runs, refs, procs, input>>

\* The loop of the innermost call has no edge left.
DetectReturn ==
  /\ output.kind = "detect"
  /\ output.status = "running"
  /\ LET top == output.stack[Len(output.stack)]
     IN  top.i > Len(top.edges)
  /\ output' = Returns(output)
  /\ UNCHANGED <<list, exists, suites, checks, deps, runs, refs, procs, input>>

NextCycles ==
  \/ CallCycles
  \/ DetectEdge
  \/ DetectReturn

\* One thread runs the function: its next step is always taken.
SpecCycles == InitCycles /\ [][NextCycles]_vars /\ WF_vars(NextCycles)

(***************************************************************************)
(* Properties.                                                             *)
(***************************************************************************)
\* C1: in every reachable state each environment has at most one Deployment
\* Unit whose check is queued or in_progress, whatever events were delivered.
C1_OneUnitInFlight ==
  \A env \in Envs :
    Cardinality({d \in 1..Len(deps) :
                   /\ ~deps[d].deleted
                   /\ deps[d].env = env
                   /\ checks[deps[d].check_run_id].status \in {"queued", "in_progress"}}) <= 1

\* C3: when a deploy, request, rerequest, started or completed handler has
\* returned, every lock that is held at a SHA has a Deployment Unit of that
\* environment and SHA whose check is queued, in_progress or action_required.
C3_HeldLockHasUnit ==
  \A event \in DeployEvents \cup RequestEvents \cup RerequestEvents
                 \cup StartedEvents \cup CompletedEvents :
    LET w == After("p1", event)
    IN  w.proc.pc = "done" =>
          \A env \in Envs :
            w.refs[env] # NoSha =>
              \E d \in 1..Len(w.deps) :
                /\ ~w.deps[d].deleted
                /\ w.deps[d].env = env
                /\ w.deps[d].sha = w.refs[env]
                /\ \/ w.checks[w.deps[d].check_run_id].status \in {"queued", "in_progress"}
                   \/ w.checks[w.deps[d].check_run_id].conclusion = "action_required"

\* C4: while an environment has a unit that is incomplete, or the follow-on
\* unit of one that has not reached success or failure, a lock held at the
\* unit's SHA stays held at it, whatever event is handled.
C4_LockHeldBetweenStages ==
  [][\A env \in Envs :
       LET Staged(cs, ds) ==
             \E d \in 1..Len(ds) :
               /\ ~ds[d].deleted
               /\ ds[d].env = env
               /\ ds[d].sha = refs[env]
               /\ \/ cs[ds[d].check_run_id].conclusion = "action_required"
                  \/ /\ ds[d].completed_stages # <<>>
                     /\ cs[ds[d].check_run_id].status \in {"queued", "in_progress"}
       IN  (refs[env] # NoSha /\ Staged(checks, deps) /\ Staged(checks', deps'))
             => refs'[env] = refs[env]]_vars

\* C5: whenever the completed handler ends by releasing the lock, the check of
\* the current unit is concluded success or failure.
C5_ReleaseOnlyWhenConcluded ==
  \A event \in CompletedEvents :
    LET w == After("p1", event)
        dep == DeploymentGet(w, event.sha, event.env, 0)
    IN  (w.proc.pc = "done" /\ w.proc.exit = "unlock") =>
          /\ dep # 0
          /\ w.checks[w.deps[dep].check_run_id].status = "completed"
          /\ w.checks[w.deps[dep].check_run_id].conclusion \in {"success", "failure"}

C8_SuiteMakesDeployNoOp ==
  \A event \in DeployEvents :
    LET w == After("p1", event)
    IN  event.sha \in suites =>
          /\ w.suites = suites
          /\ w.checks = checks
          /\ w.deps = deps
          /\ w.refs = refs
          /\ w.proc.pc = "done"

\* C8 happens: a commit has a check suite, a check run and a unit, and the
\* commit event delivered again ends at the look at the check suites.
C8_Witness ==
  \E event \in DeployEvents :
    /\ event.sha \in suites
    /\ \E d \in 1..Len(deps) : deps[d].sha = event.sha
    /\ After("p1", event).proc.exit = "suite"

\* C10: a request of an action whose check run is not the latest of its commit
\* and environment changes no check run, no unit and no lock.
C10_StaleRequestNoOp ==
  \A event \in RequestEvents :
    LET w == After("p1", event)
    IN  CheckFind(World("p1"), event.sha, event.env) # event.run =>
          /\ w.checks = checks
          /\ w.deps = deps
          /\ w.refs = refs

\* C2: while an environment's lock is held, no lock call of any handler takes
\* it for another commit: the branch changes only by being released, so that
\* between two unlocks at most one of the lock calls with differing SHAs
\* succeeds, however the handlers' calls interleave.
C2_OneLockUntilUnlock ==
  [][\A env \in Envs : refs[env] # NoSha => refs'[env] \in {refs[env], NoSha}]_vars

\* C2 happens: two commit events of differing SHAs are handled at the same
\* time, one holds the lock and the lock call of the other has failed.
C2_Witness ==
  \E p \in Procs :
    /\ procs[p].kind = "deploy"
    /\ procs[p].pc = "deploy_ready"
    /\ DeployCase(list[procs[p].i], procs[p].trigger, procs[p].branch) = "deploy"
    /\ refs[procs[p].env] \notin {NoSha, procs[p].sha}
    /\ \E q \in Procs \ {p} : procs[q].kind = "deploy" /\ procs[q].sha = refs[procs[p].env]

\* C9: when the deliveries of commit events have been handled, at the same
\* time or not, every environment whose valid config the events matched (the
\* workflow exists and the config has no manual trigger, so that each check run
\* stems from a match) has at most one check run and at most one unit for a
\* commit.
C9_RaceKeepsOneCheck ==
  (\A p \in Procs : procs[p].kind = "idle") =>
    \A sha \in Shas, k \in 1..Len(list) :
      (/\ exists
       /\ ~list[k].err
       /\ \A branch \in Branches : ~matches(list[k].cfg.on, "manual", branch))
      => /\ Cardinality({c \in 1..Len(checks) :
                           checks[c].sha = sha /\ checks[c].env = list[k].key}) <= 1
         /\ Cardinality({d \in 1..Len(deps) :
                           /\ ~deps[d].deleted
                           /\ deps[d].sha = sha
                           /\ deps[d].env = list[k].key}) <= 1

\* C12, as stated: a completed event for a unit whose check is completed
\* changes neither the check, the unit nor the lock of the environment.
C12_CompletedCheckNoOp ==
  \A event \in CompletedEvents :
    LET run == WorkflowGet(World("p1"), event.sha, event.env)
        dep == DeploymentGet(World("p1"), event.sha, event.env, 0)
        w == After("p1", event)
    IN  (/\ run # 0
         /\ dep # 0
         /\ runs[run].suite = event.suite
         /\ runs[run].status = "completed"
         /\ checks[deps[dep].check_run_id].status = "completed")
        => /\ w.checks = checks
           /\ w.deps = deps
           /\ w.refs = refs

\* C12, amended: a completed event for a unit whose check is concluded success
\* or failure leaves every check and unit as it is and, unless another commit
\* holds the lock, returns with the lock of the environment released.
C12_CompletedCheckReleases ==
  \A event \in CompletedEvents :
    LET run == WorkflowGet(World("p1"), event.sha, event.env)
        dep == DeploymentGet(World("p1"), event.sha, event.env, 0)
        w == After("p1", event)
    IN  (/\ run # 0
         /\ dep # 0
         /\ runs[run].suite = event.suite
         /\ runs[run].status = "completed"
         /\ checks[deps[dep].check_run_id].status = "completed"
         /\ checks[deps[dep].check_run_id].conclusion \in {"success", "failure"})
        => /\ w.checks = checks
           /\ w.deps = deps
           /\ refs[event.env] \in {NoSha, event.sha} =>
                /\ w.proc.pc = "done"
                /\ w.refs = [refs EXCEPT ![event.env] = NoSha]
           /\ refs[event.env] \notin {NoSha, event.sha} =>
                /\ w.proc.pc = "error"
                /\ w.refs = refs

\* C12 happens: a status report has concluded the check of a unit that holds
\* the lock, its workflow run has completed, and the completed event releases
\* the lock.
C12_Witness ==
  \E event \in CompletedEvents :
    LET dep == DeploymentGet(World("p1"), event.sha, event.env, 0)
        w == After("p1", event)
    IN  /\ dep # 0
        /\ checks[deps[dep].check_run_id].conclusion \in {"success", "failure"}
        /\ refs[event.env] = event.sha
        /\ w.proc.exit = "unlock"
        /\ w.refs[event.env] = NoSha
        /\ w.checks = checks

\* C14, as stated: a status report of success or failure for the current unit
\* of a workflow run leaves the checks, the deployments and the locks as the
\* completed event of that run with the same conclusion would leave them.
C14_StatusAsCompleted ==
  \A r \in 1..Len(runs), state \in {"success", "failure"} :
    LET dep == runs[r].dep
        sha == deps[dep].sha
        env == deps[dep].env
        reported == After("p1", StatusEvent(dep, state))
        completed == RunOf([World("p1") EXCEPT
                       !.runs[r].status = "completed",
                       !.runs[r].conclusion = state,
                       !.proc = CompletedEvent(sha, env, runs[r].suite)])
    IN  (/\ ~deps[dep].deleted
         /\ dep = DeploymentGet(World("p1"), sha, env, 0)
         /\ r = WorkflowGet(World("p1"), sha, env)
         /\ refs[env] = sha
         /\ checks[deps[dep].check_run_id].status # "completed")
        => /\ reported.checks = completed.checks
           /\ reported.deps = completed.deps
           /\ reported.refs = completed.refs

\* C14, amended: such a status report leaves the checks and the deployments as
\* the completed event would, and leaves every lock as it was.
C14_StatusKeepsLock ==
  \A r \in 1..Len(runs), state \in {"success", "failure"} :
    LET dep == runs[r].dep
        sha == deps[dep].sha
        env == deps[dep].env
        reported == After("p1", StatusEvent(dep, state))
        completed == RunOf([World("p1") EXCEPT
                       !.runs[r].status = "completed",
                       !.runs[r].conclusion = state,
                       !.proc = CompletedEvent(sha, env, runs[r].suite)])
    IN  (/\ ~deps[dep].deleted
         /\ dep = DeploymentGet(World("p1"), sha, env, 0)
         /\ r = WorkflowGet(World("p1"), sha, env)
         /\ refs[env] = sha
         /\ checks[deps[dep].check_run_id].status # "completed")
        => /\ reported.checks = completed.checks
           /\ reported.deps = completed.deps
           /\ reported.refs = refs
           /\ reported.proc.pc = "done"

\* C14 happens: a status report has concluded the check of a unit as a success
\* while its workflow run is still in progress, and the lock is still held.
C14_Witness ==
  \E r \in 1..Len(runs) :
    LET dep == runs[r].dep
    IN  /\ runs[r].status = "in_progress"
        /\ ~deps[dep].deleted
        /\ deps[dep].state = "success"
        /\ checks[deps[dep].check_run_id].conclusion = "success"
        /\ refs[deps[dep].env] = deps[dep].sha

\* C16: a commit event that matches a valid config of an environment whose
\* lock is held creates no unit of that environment, leaves the lock pinned to
\* the commit of its holder, ends without an error, and leaves the new check
\* run of the environment completed as ready, with the deploy action.
C16_LockedDeployIsReady ==
  \A event \in DeployEvents, k \in 1..Len(list) :
    LET env == list[k].key
        w == After("p1", event)
        units == {d \in (Len(deps) + 1)..Len(w.deps) : w.deps[d].env = env}
        posted == {c \in (Len(checks) + 1)..Len(w.checks) : w.checks[c].env = env}
    IN  (/\ exists
         /\ ~list[k].err
         /\ matches(list[k].cfg.on, event.trigger, event.branch)
         /\ event.sha \notin suites
         /\ refs[env] # NoSha)
        => /\ units = {}
           /\ [d \in 1..Len(deps) |-> w.deps[d]] = deps
           /\ w.refs[env] = refs[env]
           /\ w.proc.pc = "done"
           /\ Cardinality(posted) = 1
           /\ \A c \in posted :
                /\ w.checks[c].sha = event.sha
                /\ w.checks[c].status = "completed"
                /\ w.checks[c].conclusion = "neutral"
                /\ w.checks[c].actions = <<"deploy">>

\* C16 happens: under a config with no manual trigger, a commit has a check
\* run completed as ready while another commit holds the lock and its unit.
C16_Witness ==
  \E c \in 1..Len(checks), k \in 1..Len(list) :
    /\ list[k].key = checks[c].env
    /\ ~list[k].err
    /\ \A branch \in Branches : ~matches(list[k].cfg.on, "manual", branch)
    /\ checks[c].status = "completed"
    /\ checks[c].conclusion = "neutral"
    /\ checks[c].actions = <<"deploy">>
    /\ refs[checks[c].env] \notin {NoSha, checks[c].sha}
    /\ \A d \in 1..Len(deps) : deps[d].check_run_id # c
    /\ \E d \in 1..Len(deps) : /\ ~deps[d].deleted
                               /\ deps[d].env = checks[c].env
                               /\ deps[d].sha = refs[checks[c].env]

\* C17: a rerequest for a check run that is not completed as a failure changes
\* nothing: no check run and no unit is created, and every lock is as before.
C17_RerequestGuard ==
  \A event \in RerequestEvents :
    LET w == After("p1", event)
    IN  (checks[event.run].status # "completed" \/ checks[event.run].conclusion # "failure")
        => /\ w.checks = checks
           /\ w.deps = deps
           /\ w.refs = refs

\* C18: a rerequest of a check run completed as a failure that has a unit, with
\* the workflow present, the config valid and the lock free or held at the
\* commit, creates exactly one new check run and one new unit under it, queued,
\* with the task, stages, completed stages and artifacts of the old unit; the
\* lock is held at the commit; the old deployment is removed, and at no point
\* of the handler is it removed before the new unit is queued.
C18_RerequestRepeatsUnit ==
  \A event \in RerequestEvents :
    LET sha == event.sha
        env == event.env
        cur == DeploymentGet(World("p1"), sha, env, event.run)
        w == After("p1", event)
        dep == Len(deps) + 1
        chk == Len(checks) + 1
    IN  (/\ checks[event.run].status = "completed"
         /\ checks[event.run].conclusion = "failure"
         /\ cur # 0
         /\ exists
         /\ ~ConfigGet(env).err
         /\ refs[env] \in {NoSha, sha})
        => /\ w.proc.pc = "done"
           /\ Len(w.checks) = chk
           /\ Len(w.deps) = dep
           /\ w.checks[chk] = [NewCheck(sha, env) EXCEPT !.status = "queued"]
           /\ w.deps[dep].check_run_id = chk
           /\ w.deps[dep].env = env
           /\ w.deps[dep].sha = sha
           /\ w.deps[dep].state = "queued"
           /\ ~w.deps[dep].deleted
           /\ w.deps[dep].task = deps[cur].task
           /\ w.deps[dep].stages = deps[cur].stages
           /\ w.deps[dep].completed_stages = deps[cur].completed_stages
           /\ w.deps[dep].artifacts = deps[cur].artifacts
           /\ w.refs = [refs EXCEPT ![env] = sha]
           /\ w.deps[cur].deleted
           /\ \A v \in Trail([World("p1") EXCEPT !.proc = event]) :
                v.deps[cur].deleted =>
                  /\ Len(v.deps) = dep
                  /\ v.deps[dep].state = "queued"
                  /\ v.checks[chk].status = "queued"

\* C18 happens: the unit of a later stage, with completed stages, has failed,
\* and the rerequest of its check run repeats it and removes it.
C18_Witness ==
  \E event \in RerequestEvents :
    LET cur == DeploymentGet(World("p1"), event.sha, event.env, event.run)
        w == After("p1", event)
    IN  /\ checks[event.run].conclusion = "failure"
        /\ cur # 0
        /\ deps[cur].completed_stages # <<>>
        /\ w.proc.exit = "end"
        /\ w.deps[cur].deleted
        /\ w.deps[Len(w.deps)].completed_stages = deps[cur].completed_stages

\* C19: a manual action on the latest check run of a commit and environment
\* that has a unit (config valid, workflow run present, lock free or held at
\* the commit) creates one successor unit: its stages have no duplicates and
\* are the targets of the action in exactly those stages of the config that
\* are stages of the current unit and declare the action; its completed stages
\* are those of the current unit followed by the current unit's stages.
C19_ActionSuccessor ==
  \A event \in RequestEvents :
    LET sha == event.sha
        env == event.env
        cur == DeploymentGet(World("p1"), sha, env, event.run)
        stages == ConfigGet(env).cfg.stages
        current == {deps[cur].stages[k] : k \in 1..Len(deps[cur].stages)}
        targets == UNION {UNION {{stages[k].actions[j].runs[i] :
                                    i \in 1..Len(stages[k].actions[j].runs)} :
                                 j \in {j \in 1..Len(stages[k].actions) :
                                          stages[k].actions[j].id = event.action}} :
                          k \in {k \in 1..Len(stages) : stages[k].key \in current}}
        w == After("p1", event)
        dep == Len(deps) + 1
    IN  (/\ cur # 0
         /\ CheckFind(World("p1"), sha, env) = event.run
         /\ ~ConfigGet(env).err
         /\ WorkflowGet(World("p1"), sha, env) # 0
         /\ refs[env] \in {NoSha, sha})
        => /\ Len(w.deps) = dep
           /\ w.deps[dep].check_run_id = Len(checks) + 1
           /\ {w.deps[dep].stages[k] : k \in 1..Len(w.deps[dep].stages)} = targets
           /\ Cardinality(targets) = Len(w.deps[dep].stages)
           /\ w.deps[dep].completed_stages = deps[cur].completed_stages \o deps[cur].stages

\* C19 happens: the release action, declared by the build and check stages
\* with a shared target, has made the successor of the unit of those stages.
C19_Witness ==
  \E d \in 1..Len(deps) :
    /\ ~deps[d].deleted
    /\ deps[d].task = <<"deploy", "release">>
    /\ deps[d].stages = <<"release", "test", "check">>
    /\ deps[d].completed_stages = <<"build", "check">>
    /\ deps[d].state = "queued"

\* C19 happens for a later unit: the release action is requested for the unit
\* of the stages release, test and check, and the targets of the build stage,
\* which declares the action and is no stage of the unit, are left out.
C19_WitnessLater ==
  \E event \in RequestEvents :
    LET cur == DeploymentGet(World("p1"), event.sha, event.env, event.run)
        w == After("p1", event)
    IN  /\ cur # 0
        /\ event.action = "release"
        /\ deps[cur].stages = <<"release", "test", "check">>
        /\ w.proc.exit = "end"
        /\ w.deps[Len(w.deps)].stages = <<"release", "check">>

\* C20: the stages of a unit started from scratch, by a commit event, a fresh
\* manual start or a rerequest without a prior unit, are exactly the stages of
\* the config that have no dependencies in their needs.
C20_FreshStartsEntryStages ==
  \A d \in 1..Len(deps) :
    LET stages == ConfigGet(deps[d].env).cfg.stages
        free == {stages[k].key : k \in {k \in 1..Len(stages) : stages[k].needs.list = <<>>}}
    IN  deps[d].task = <<"deploy">>
        => {deps[d].stages[k] : k \in 1..Len(deps[d].stages)} = free

\* C13: the status of a check run becomes in_progress only from queued: a
\* check run that is completed is never set back to in_progress, in whatever
\* order the started and completed events arrive and however the calls of
\* their handlers interleave, duplicates included.
C13_StartedOnlyFromQueued ==
  [][\A c \in 1..Len(checks) :
       (checks'[c].status = "in_progress" /\ checks[c].status # "in_progress")
       => checks[c].status = "queued"]_vars

C15_WitnessOther ==
  \E p \in Procs :
    /\ procs[p].pc = "ensure_getRef"
    /\ refs[procs[p].env] \notin {NoSha, procs[p].sha}

\* C11: a manual action request delivered twice, one after the other or with
\* the calls of the two handlers interleaved, has at most one successor: no
\* two units that are not removed were created for the same action on the
\* same commit and environment from the same completed stages, and so no two
\* check runs carry such units.
C11_OneSuccessor ==
  \A d1 \in 1..Len(deps), d2 \in 1..Len(deps) :
    (/\ d1 # d2
     /\ Len(deps[d1].task) = 2
     /\ deps[d1].task = deps[d2].task
     /\ deps[d1].sha = deps[d2].sha
     /\ deps[d1].env = deps[d2].env
     /\ deps[d1].completed_stages = deps[d2].completed_stages)
    => deps[d1].deleted \/ deps[d2].deleted

\* C25: a commit event does not lock an environment or create a unit for a
\* valid config that its trigger and branch do not match, whether or not the
\* config declares the manual trigger: when the config matches manual and the
\* event is a push, the one check run posted for the environment is completed
\* as ready with the deploy action, and otherwise no check run is posted.
C25_ManualNeverDeployed ==
  \A event \in DeployEvents, k \in 1..Len(list) :
    LET env == list[k].key
        w == After("p1", event)
        units == {d \in (Len(deps) + 1)..Len(w.deps) : w.deps[d].env = env}
        posted == {c \in (Len(checks) + 1)..Len(w.checks) : w.checks[c].env = env}
    IN  (/\ exists
         /\ ~list[k].err
         /\ ~matches(list[k].cfg.on, event.trigger, event.branch)
         /\ event.sha \notin suites)
        => /\ units = {}
           /\ w.refs[env] = refs[env]
           /\ IF matches(list[k].cfg.on, "manual", event.branch) /\ event.trigger = "push"
              THEN /\ Cardinality(posted) = 1
                   /\ \A c \in posted :
                        /\ w.checks[c].sha = event.sha
                        /\ w.checks[c].status = "completed"
                        /\ w.checks[c].conclusion = "neutral"
                        /\ w.checks[c].actions = <<"deploy">>
              ELSE posted = {}

\* C25 happens: under a config that declares only manual a push has posted
\* the ready check run, and the environment has no lock and no unit.
C25_Witness ==
  \E c \in 1..Len(checks), k \in 1..Len(list) :
    /\ list[k].key = checks[c].env
    /\ list[k].cfg.on = OnString("manual")
    /\ checks[c].status = "completed"
    /\ checks[c].conclusion = "neutral"
    /\ checks[c].actions = <<"deploy">>
    /\ checks[c].sha \in suites
    /\ refs[checks[c].env] = NoSha
    /\ deps = <<>>

\* C26, as stated: a pull request event for a valid config of an unlocked
\* environment, with the deployment workflow present, queues exactly one unit
\* of the environment when the config declares pull_request for the base
\* branch, also when the commit has a check suite from an earlier commit
\* event, and creates no unit when the base branch does not match.
C26_PullRequestQueues ==
  \A event \in DeployEvents, k \in 1..Len(list) :
    LET env == list[k].key
        on == list[k].cfg.on
        hit == CASE on.form = "string" -> on.str = "pull_request"
                 [] on.form = "array" -> "pull_request" \in on.arr
                 [] OTHER -> /\ "pull_request" \in DOMAIN on.map
                             /\ \/ on.map["pull_request"].null
                                \/ ~on.map["pull_request"].branches.def
                                \/ event.branch \in on.map["pull_request"].branches.list
        w == After("p1", event)
        units == {d \in (Len(deps) + 1)..Len(w.deps) : w.deps[d].env = env}
    IN  (/\ event.trigger = "pull_request"
         /\ exists
         /\ ~list[k].err
         /\ refs[env] = NoSha)
        => IF hit
           THEN /\ Cardinality(units) = 1
                /\ \A d \in units : w.deps[d].sha = event.sha /\ w.deps[d].state = "queued"
           ELSE units = {}

\* C26, amended: such a pull request event queues exactly one unit of the
\* environment, and locks it at the commit, when the config declares
\* pull_request for the base branch and the commit has no check suite; it
\* creates no unit when the commit has a check suite from an earlier commit
\* event, or when the base branch does not match.
C26_PullRequestQueuesOnce ==
  \A event \in DeployEvents, k \in 1..Len(list) :
    LET env == list[k].key
        on == list[k].cfg.on
        hit == CASE on.form = "string" -> on.str = "pull_request"
                 [] on.form = "array" -> "pull_request" \in on.arr
                 [] OTHER -> /\ "pull_request" \in DOMAIN on.map
                             /\ \/ on.map["pull_request"].null
                                \/ ~on.map["pull_request"].branches.def
                                \/ event.branch \in on.map["pull_request"].branches.list
        w == After("p1", event)
        units == {d \in (Len(deps) + 1)..Len(w.deps) : w.deps[d].env = env}
    IN  (/\ event.trigger = "pull_request"
         /\ exists
         /\ ~list[k].err
         /\ refs[env] = NoSha)
        => IF hit /\ event.sha \notin suites
           THEN /\ Cardinality(units) = 1
                /\ \A d \in units : w.deps[d].sha = event.sha /\ w.deps[d].state = "queued"
                /\ w.refs[env] = event.sha
           ELSE /\ units = {}
                /\ w.refs[env] = NoSha

\* C26 happens: under the config that declares pull_request for master alone
\* the push of a commit changes nothing and leaves no check suite, and the
\* pull request to master then queues the unit; the pull request to develop
\* queues none.
C26_Witness ==
  \E sha \in Shas :
    LET push == After("p1", DeployEvent(sha, "master", "push"))
        pull == After("p1", DeployEvent(sha, "master", "pull_request"))
        other == After("p1", DeployEvent(sha, "develop", "pull_request"))
    IN  /\ Len(list) = 1
        /\ list[1].cfg = CfgPull
        /\ exists
        /\ \E d \in 1..Len(deps) : deps[d].sha # sha
        /\ refs[list[1].key] = NoSha
        /\ push.suites = suites
        /\ push.checks = checks
        /\ Len(pull.deps) = Len(deps) + 1
        /\ pull.deps[Len(pull.deps)].state = "queued"
        /\ other.deps = deps

\* C27: for an environment whose deployment workflow is missing or whose
\* config is invalid, a commit event for a commit without a check suite posts
\* one check run, completed as a failure with no action, does not lock the
\* environment and creates no unit of it.
C27_MissingOrInvalidFails ==
  \A event \in DeployEvents, k \in 1..Len(list) :
    LET env == list[k].key
        w == After("p1", event)
        units == {d \in (Len(deps) + 1)..Len(w.deps) : w.deps[d].env = env}
        posted == {c \in (Len(checks) + 1)..Len(w.checks) : w.checks[c].env = env}
    IN  (/\ ~exists \/ list[k].err
         /\ event.sha \notin suites)
        => /\ Cardinality(posted) = 1
           /\ \A c \in posted :
                /\ w.checks[c].sha = event.sha
                /\ w.checks[c].status = "completed"
                /\ w.checks[c].conclusion = "failure"
                /\ w.checks[c].actions = <<>>
           /\ units = {}
           /\ w.refs[env] = refs[env]
           /\ event.sha \in w.suites

\* C27 happens: with the workflow present, a commit event has posted the
\* failed check run of an invalid config; no lock is held and no unit exists.
C27_Witness ==
  \E c \in 1..Len(checks), k \in 1..Len(list) :
    /\ exists
    /\ list[k].err
    /\ list[k].key = checks[c].env
    /\ checks[c].status = "completed"
    /\ checks[c].conclusion = "failure"
    /\ checks[c].sha \in suites
    /\ deps = <<>>
    /\ \A e \in Envs : refs[e] = NoSha

\* C27 happens for a missing workflow: both environments of a listing have
\* their failed check run, and neither is locked.
C27_WitnessMissing ==
  /\ ~exists
  /\ Len(list) = 2
  /\ Len(checks) = 2
  /\ \A c \in 1..2 : checks[c].conclusion = "failure" /\ checks[c].env = list[c].key
  /\ deps = <<>>
  /\ \A e \in Envs : refs[e] = NoSha

\* C29: a started or completed event that names a check suite other than the
\* one of the latest workflow run of its commit and environment ends without
\* an error and changes no check run, no unit and no lock.
C29_ForeignSuiteDropped ==
  \A event \in StartedEvents \cup CompletedEvents :
    LET run == WorkflowGet(World("p1"), event.sha, event.env)
        w == After("p1", event)
    IN  (run # 0 /\ runs[run].suite # event.suite)
        => /\ w.proc.pc = "done"
           /\ w.checks = checks
           /\ w.deps = deps
           /\ w.refs = refs

\* C30: a manual action request or a rerequest for an environment whose lock
\* is held by another commit is dropped: it creates no check run and no unit,
\* changes none, ends without an error and leaves the lock at its holder's
\* commit.
C30_ForeignLockDropsRequest ==
  \A event \in RequestEvents \cup RerequestEvents :
    LET w == After("p1", event)
    IN  refs[event.env] \notin {NoSha, event.sha}
        => /\ w.proc.pc = "done"
           /\ w.proc.exit \in {"lock", "ensure"}
           /\ w.checks = checks
           /\ w.deps = deps
           /\ w.refs = refs

\* C30 happens: the deploy action of a ready check run is requested while
\* another commit holds the lock with its unit, and the request ends at the
\* failed lock.
C30_Witness ==
  \E event \in RequestEvents :
    /\ refs[event.env] \notin {NoSha, event.sha}
    /\ \E d \in 1..Len(deps) : ~deps[d].deleted /\ deps[d].sha = refs[event.env]
    /\ After("p1", event).proc.exit = "lock"

\* C30 happens for a rerequest: the failed check run of a unit is rerequested
\* while another commit holds the lock, and the rerequest ends in ensure.
C30_WitnessRerequest ==
  \E event \in RerequestEvents :
    /\ refs[event.env] \notin {NoSha, event.sha}
    /\ checks[event.run].conclusion = "failure"
    /\ After("p1", event).proc.exit = "ensure"

\* C24: matches(trigger, branch) is true exactly when the triggers are a
\* string equal to the trigger, or an array that contains it, or a map with a
\* key for it whose value is null, has no branches list or has a branches list
\* that contains the branch.
C24_MatchesExactly ==
  output.kind = "match" =>
    LET on == input.on
        trigger == output.trigger
        expected ==
          \/ on.form = "string" /\ on.str = trigger
          \/ on.form = "array" /\ trigger \in on.arr
          \/ /\ on.form = "map"
             /\ trigger \in DOMAIN on.map
             /\ \/ on.map[trigger].null
                \/ ~on.map[trigger].branches.def
                \/ output.branch \in on.map[trigger].branches.list
    IN  output.value <=> expected

\* C24 happens: a map with a branches list for pull_request has matched a
\* pull request to a listed branch, and one with a list has rejected another.
C24_Witness ==
  /\ output.kind = "match"
  /\ input.on.form = "map"
  /\ output.trigger = "pull_request"
  /\ "pull_request" \in DOMAIN input.on.map
  /\ input.on.map["pull_request"].branches.def
  /\ output.branch \in input.on.map["pull_request"].branches.list
  /\ input.on.map["pull_request"].branches.list # Branches
  /\ output.value

\* The stages a config declares, and the declared stages a stage needs.
DeclaredKeys(stages) == {stages[k].key : k \in 1..Len(stages)}

NeedsAmong(stages, key) ==
  {value \in DeclaredKeys(stages) : Includes(StageByKey(stages, key)[1].needs.list, value)}

\* The declared stages reached from a set of them in at most n steps of needs.
RECURSIVE ReachedWithin(_, _, _)
ReachedWithin(stages, from, n) ==
  IF n = 0 THEN from
  ELSE ReachedWithin(stages, from \cup UNION {NeedsAmong(stages, key) : key \in from}, n - 1)

\* A cycle of two or more stages: two different stages that need each other,
\* at once or through others.
HasCycle(stages) ==
  \E k1 \in DeclaredKeys(stages) :
    \E k2 \in DeclaredKeys(stages) \ {k1} :
      /\ k2 \in ReachedWithin(stages, NeedsAmong(stages, k1), Len(stages))
      /\ k1 \in ReachedWithin(stages, NeedsAmong(stages, k2), Len(stages))

\* What a rendered path reads as: the names between the arrows.
NodesOf(text) == [k \in 1..((Len(text) + 1) \div 2) |-> text[2 * k - 1]]

\* A rendered path that is a real cycle from root: names joined by arrows,
\* root first and last, no other name twice, each name needed by the one
\* before it (a stage that needs itself is the cycle root -> root).
RealCycle(stages, root, text) ==
  LET nodes == NodesOf(text)
      n == Len(nodes)
  IN  /\ Len(text) % 2 = 1
      /\ \A k \in 1..Len(text) : k % 2 = 0 => text[k] = " -> "
      /\ n >= 2
      /\ nodes[1] = root
      /\ nodes[n] = root
      /\ \A i \in 1..(n - 1), j \in 1..(n - 1) : nodes[i] = nodes[j] => i = j
      /\ \A i \in 1..n : nodes[i] \in DeclaredKeys(stages)
      /\ \A i \in 1..(n - 1) : nodes[i + 1] \in NeedsAmong(stages, nodes[i])

\* C21: when the needs among the declared stages hold a cycle of two or more
\* stages the schema rejects the config, and every path a "detected cycles"
\* error reports is a real cycle rendered root -> ... -> root.
C21_CyclesRejectedAndReal ==
  output.kind = "validate" =>
    /\ HasCycle(input.stages) => output.reports # {}
    /\ \A report \in output.reports :
         report.found.error = "detected cycles" =>
           /\ Len(report.found.cycles) > 0
           /\ \A i \in 1..Len(report.found.cycles) :
                RealCycle(input.stages, report.value, report.found.cycles[i])

\* C21 happens: a cycle through all three stages has been reported for a stage
\* that needs two others.
C21_Witness ==
  /\ output.kind = "validate"
  /\ HasCycle(input.stages)
  /\ \E report \in output.reports :
       /\ report.found.error = "detected cycles"
       /\ Len(StageByKey(input.stages, report.value)[1].needs.list) = 2
       /\ \E i \in 1..Len(report.found.cycles) : Len(NodesOf(report.found.cycles[i])) = 4

\* C22: the schema rejects every config in which the needs of a stage name
\* the stage itself or a stage that is not declared.
C22_NeedsOwnOrUndeclaredRejected ==
  output.kind = "validate" =>
    ((\E k \in 1..Len(input.stages) :
        \E j \in 1..Len(input.stages[k].needs.list) :
          \/ input.stages[k].needs.list[j] = input.stages[k].key
          \/ input.stages[k].needs.list[j] \notin DeclaredKeys(input.stages))
     => output.reports # {})

\* C22 happens: a config whose only needs value is the stage itself has been
\* rejected for it.
C22_Witness ==
  /\ output.kind = "validate"
  /\ \E k \in 1..Len(input.stages) :
       /\ input.stages[k].needs.list = <<input.stages[k].key>>
       /\ \A o \in 1..Len(input.stages) : o # k => input.stages[o].needs.list = <<>>
       /\ \E report \in output.reports :
            /\ report.stage = input.stages[k].key
            /\ report.found.error = "it cannot reference own stage"

\* A needs value that every object inherits has been rejected as well.
C22_WitnessInherited ==
  /\ output.kind = "validate"
  /\ \E report \in output.reports :
       /\ report.field = "needs"
       /\ report.value = "constructor"
       /\ report.found.error = "TypeError"

\* The stage names the runs of the actions of a config state.
RunsNamed(stages) ==
  UNION {UNION {{stages[k].actions[a].runs[j] : j \in 1..Len(stages[k].actions[a].runs)} :
                  a \in 1..Len(stages[k].actions)} : k \in 1..Len(stages)}

\* C23: the schema accepts the runs of an action exactly when every stage
\* they name is declared in the config, the stage of the action included.
C23_RunsAcceptedIffDeclared ==
  (output.kind = "validate" /\ RunsNamed(input.stages) # {}) =>
    (output.reports = {} <=> RunsNamed(input.stages) \subseteq DeclaredKeys(input.stages))

\* The entries of a directory that Config.list loads: the config files.
ConfigFiles(files) ==
  {i \in 1..Len(files) : files[i].type = "file" /\ files[i].ext \in {"yml", "yaml"}}

\* C28: Config.list of a directory of N config files of which M fail returns
\* M error entries and N - M config entries under distinct keys, also when
\* two files resolve to the same id.
C28_ListKeepsEveryFile ==
  output.kind = "list" =>
    LET N == Cardinality(ConfigFiles(input.files))
        M == Cardinality({i \in ConfigFiles(input.files) : ~input.files[i].valid})
        keys == DOMAIN output.items
    IN  /\ Cardinality(keys) = N
        /\ Cardinality({key \in keys : output.items[key].err}) = M
        /\ Cardinality({key \in keys : ~output.items[key].err}) = N - M

\* The environment an event is for: the one it names, or the one of the
\* deployment a status report names.
EnvOf(event) == IF event.kind = "status" THEN deps[event.dep].env ELSE event.env

\* The check runs and units of an environment are in world w what they are
\* in the current state, and so is its lock.
Untouched(w, env) ==
  /\ w.refs[env] = refs[env]
  /\ \A c \in 1..Len(w.checks) :
       IF c <= Len(checks)
       THEN checks[c].env = env => w.checks[c] = checks[c]
       ELSE w.checks[c].env # env
  /\ \A d \in 1..Len(w.deps) :
       IF d <= Len(deps)
       THEN deps[d].env = env => w.deps[d] = deps[d]
       ELSE w.deps[d].env # env

\* C31: a request, rerequest, started, completed or status event of one
\* environment leaves the lock, the check runs and the units of every other
\* environment as they are; a commit event that matches the configs of two
\* unlocked environments locks each at the commit and queues one unit and one
\* check run for each.
C31_EnvironmentsIndependent ==
  /\ \A event \in RequestEvents \cup RerequestEvents \cup StartedEvents
                    \cup CompletedEvents \cup StatusEvents :
       \A env \in Envs \ {EnvOf(event)} : Untouched(After("p1", event), env)
  /\ \A event \in DeployEvents :
       LET w == After("p1", event)
           matching == {k \in 1..Len(list) :
                          /\ ~list[k].err
                          /\ matches(list[k].cfg.on, event.trigger, event.branch)}
       IN  (/\ exists
            /\ event.sha \notin suites
            /\ Cardinality(matching) = 2
            /\ \A k \in matching : refs[list[k].key] = NoSha)
           => \A k \in matching :
                LET env == list[k].key
                IN  /\ w.refs[env] = event.sha
                    /\ Cardinality({d \in (Len(deps) + 1)..Len(w.deps) :
                                      w.deps[d].env = env}) = 1
                    /\ Cardinality({c \in (Len(checks) + 1)..Len(w.checks) :
                                      w.checks[c].env = env}) = 1
                    /\ \A d \in (Len(deps) + 1)..Len(w.deps) :
                         w.deps[d].env = env =>
                           /\ w.deps[d].sha = event.sha
                           /\ w.checks[w.deps[d].check_run_id].env = env

\* C31 happens: a push has locked two environments and queued a unit for
\* each, and the completed event of one has released its lock while the
\* other is still held with its unit queued.
C31_Witness ==
  \E event \in CompletedEvents :
    LET w == After("p1", event)
    IN  /\ \A env \in Envs : refs[env] = event.sha
        /\ w.refs[event.env] = NoSha
        /\ \E env \in Envs \ {event.env} :
             /\ w.refs[env] = event.sha
             /\ \E d \in 1..Len(w.deps) :
                  /\ w.deps[d].env = env
                  /\ w.checks[w.deps[d].check_run_id].status = "queued"

\* A unit of the environment at the commit of its lock that is incomplete:
\* its check waits for a manual action.
Awaiting(env) ==
  \E d \in 1..Len(deps) :
    /\ ~deps[d].deleted
    /\ deps[d].env = env
    /\ deps[d].sha = refs[env]
    /\ checks[deps[d].check_run_id].conclusion = "action_required"

\* C32: under fair delivery, when every workflow run concludes success or
\* failure, a lock that is held is eventually released, or its unit is
\* incomplete and waits for a manual action.
C32_HeldLockReleased ==
  [](\A r \in 1..Len(runs) : runs[r].conclusion # "cancelled")
    => \A env \in Envs :
         (refs[env] # NoSha) ~> (refs[env] = NoSha \/ Awaiting(env))

\* The stages of the config, in the order of their declaration, that are
\* stages of the unit and declare the action.
Declaring(stages, current, id) ==
  SelectSeq(stages, LAMBDA stage : Includes(current, stage.key) /\ HasAction(stage, id))

\* C33: an action that several stages of the current unit declare is offered
\* exactly once on the incomplete check, with the name that the stage
\* declared first in the config gives it.
C33_FirstDeclaredWins ==
  (output.kind = "unit" /\ output.items # <<>>) =>
    \A id \in {"go", "x"} :
      LET declaring == Declaring(input.stages, output.stages, id)
          offers == {k \in 1..Len(output.items) : output.items[k].identifier = id}
      IN  Len(declaring) >= 2 =>
            /\ Cardinality(offers) = 1
            /\ \A k \in offers : output.items[k].label = ActionName(declaring[1], id)

\* C34: the successor unit that a requested action creates carries the
\* artifacts of the prior unit overlaid by those of the latest workflow run:
\* every name the run produced maps to the run's artifact, every other name
\* of the prior unit is kept as it was, and there is no further name.
C34_SuccessorArtifacts ==
  \A event \in RequestEvents :
    LET cur == DeploymentGet(World("p1"), event.sha, event.env, event.run)
        flow == WorkflowGet(World("p1"), event.sha, event.env)
        w == After("p1", event)
    IN  (cur # 0 /\ Len(w.deps) > Len(deps)) =>
          LET prior == deps[cur].artifacts
              produced == runs[flow].artifacts
              carried == w.deps[Len(w.deps)].artifacts
          IN  /\ Len(w.deps) = Len(deps) + 1
              /\ DOMAIN carried = DOMAIN prior \cup DOMAIN produced
              /\ \A name \in DOMAIN produced : carried[name] = produced[name]
              /\ \A name \in DOMAIN prior \ DOMAIN produced : carried[name] = prior[name]

\* C34 happens: the prior unit carries an artifact of an earlier run, the
\* latest run has produced one of the same name, and the successor carries
\* the latest.
C34_Witness ==
  \E event \in RequestEvents :
    LET cur == DeploymentGet(World("p1"), event.sha, event.env, event.run)
        flow == WorkflowGet(World("p1"), event.sha, event.env)
        w == After("p1", event)
    IN  /\ cur # 0
        /\ Len(w.deps) > Len(deps)
        /\ \E name \in DOMAIN deps[cur].artifacts \cap DOMAIN runs[flow].artifacts :
             /\ deps[cur].artifacts[name] # runs[flow].artifacts[name]
             /\ w.deps[Len(w.deps)].artifacts[name] = runs[flow].artifacts[name]

\* The prior unit carries an artifact and the latest run has produced none:
\* the successor carries the artifact of the prior unit.
C34_WitnessKept ==
  \E event \in RequestEvents :
    LET cur == DeploymentGet(World("p1"), event.sha, event.env, event.run)
        flow == WorkflowGet(World("p1"), event.sha, event.env)
        w == After("p1", event)
    IN  /\ cur # 0
        /\ Len(w.deps) > Len(deps)
        /\ \E name \in DOMAIN deps[cur].artifacts \ DOMAIN runs[flow].artifacts :
             w.deps[Len(w.deps)].artifacts[name] = deps[cur].artifacts[name]

\* C35: started and completed act on a unit only when the check suite of the
\* latest workflow run of the commit and environment is the suite of the
\* event: with any other suite no check run and no unit is changed.
C35_OnlyOwnSuiteAccepted ==
  \A event \in StartedEvents \cup CompletedEvents :
    LET run == WorkflowGet(World("p1"), event.sha, event.env)
        w == After("p1", event)
    IN  (run # 0 /\ runs[run].suite # event.suite) =>
          /\ w.checks = checks
          /\ w.deps = deps

\* C36: the schema rejects no config on account of its needs when every
\* needs value names a declared stage other than its own and the needs hold
\* no cycle, whatever the order of the stages and of the needs lists, with
\* shared dependencies and with empty needs lists.
C36_AcyclicNeedsAccepted ==
  output.kind = "validate" =>
    ((/\ \A k \in 1..Len(input.stages) :
           \A j \in 1..Len(input.stages[k].needs.list) :
             /\ input.stages[k].needs.list[j] # input.stages[k].key
             /\ input.stages[k].needs.list[j] \in DeclaredKeys(input.stages)
      /\ ~HasCycle(input.stages))
     => \A report \in output.reports : report.field # "needs")

\* C36 happens: the first stage needs the two others, the later one first,
\* the second needs the third as well, the third has an empty needs list,
\* and the config has been accepted.
C36_Witness ==
  /\ output.kind = "validate"
  /\ input.stages[1].needs.list = <<"c", "b">>
  /\ input.stages[2].needs.list = <<"c">>
  /\ input.stages[3].needs = Needs(<<>>)
  /\ output.reports = {}

\* C37: once the check of a unit has concluded success or failure, no
\* started, completed or status event, delivered for the first time or again,
\* changes the status or the conclusion of that check.
C37_ConcludedCheckStays ==
  \A event \in StartedEvents \cup CompletedEvents \cup StatusEvents :
    LET w == After("p1", event)
    IN  \A d \in 1..Len(deps) :
          LET chk == deps[d].check_run_id
          IN  (/\ checks[chk].status = "completed"
               /\ checks[chk].conclusion \in {"success", "failure"})
              => /\ w.checks[chk].status = checks[chk].status
                 /\ w.checks[chk].conclusion = checks[chk].conclusion

\* C38: no unit is queued with a stage among its stages unless every stage
\* that stage needs is among the completed stages of the unit.
C38_NeedsCompletedFirst ==
  output.kind = "unit" =>
    \A k \in 1..Len(output.stages) :
      LET found == StageByKey(input.stages, output.stages[k])
      IN  found # <<>> =>
            \A j \in 1..Len(found[1].needs.list) :
              Includes(output.completed, found[1].needs.list[j])

\* C39: every unit that is created has one stage or more, for every config
\* that the schema accepts and every action that is requested.
C39_UnitHasStages ==
  output.kind = "unit" => output.stages # <<>>

\* C40: cycle detection comes to an end on every finite needs graph and every
\* root: the call of cycles returns or throws, also when the graph has cycles
\* that do not pass through the root or several cycles that overlap.
C40_DetectionTerminates ==
  <>(output.kind = "detect" /\ output.status \in {"returned", "thrown"})

\* The root a leads into the overlapping cycles b -> c -> b, b -> b and
\* c -> c, none of which passes through a; the call has returned what
\* cycles computes.
C40_Witness ==
  /\ input.kind = "graph"
  /\ input.start = "a"
  /\ input.graph = [a |-> <<"b">>, b |-> <<"c", "b">>, c |-> <<"b", "c">>]
  /\ output.kind = "detect"
  /\ output.status = "returned"
  /\ output.out = cycles(input.graph, input.start).out

====
